---- MODULE Spec2Model ----
(***************************************************************************)
(* Triggered-window capture of pyjoulescope/bin/trigger.py.                *)
(*                                                                         *)
(* The device thread fills a stream buffer with samples; run() polls and   *)
(* hands the buffer to Capture.__call__, which searches the trigger        *)
(* channel for the start and end conditions, accumulates the samples of    *)
(* the open window and emits one record per finished window.               *)
(*                                                                         *)
(* Sample ids count from 0; sample i of the trigger channel is in0[i+1].   *)
(* Both trigger signals are the parser's default, in0.  The wall-clock     *)
(* strings of _time_start/_time_end are left out: only the sample ids are  *)
(* kept.  The statistics of a window are represented by the sequence of    *)
(* the sample ids handed to the accumulators (mean, min and max are        *)
(* functions of exactly those samples); charge and energy are kept as the  *)
(* integers of 1e-15 units the code accumulates, computed from currents    *)
(* and powers that are integers of 1e-15 A and 1e-15 W.                    *)
(*                                                                         *)
(* The last part models WindowDetect of pyjoulescope/bin/windowed_accum.py *)
(* and its run(), on the same stream buffer and trigger channel.           *)
(***************************************************************************)
EXTENDS Integers, Sequences, FiniteSets, TLC

VARIABLES
    args,       \* the parsed command line (start, end, durations, count)
    in0,        \* the trigger channel of the whole stream, one bit per sample
    analog,     \* current, voltage and power of the whole stream, per sample
    sb_end,     \* end of stream_buffer.sample_id_range (samples produced so far)
    capture,    \* the fields of the Capture object, with its output
    window_detect, \* the fields of the WindowDetect object of
                \* windowed_accum.py, with its output
    pc,         \* position of run()
    quit,       \* the module-level _quit flag
    streaming,  \* the device is streaming (between device.start and device.stop)
    last_ret,   \* what the last call of Capture.__call__ returned
    last_op,    \* the last operation: its name, and whether a window was
                \* open when it began
    logger,     \* downsample_logging.py: the Logger, its LoggerDevice, the
                \* device and the files
    shutoff,    \* low_voltage_shutoff.py: run() and its device
    accumulators \* accumulators.py: the Accumulators object and its output

\* The variables of the three other scripts.
scripts == <<logger, shutoff, accumulators>>

\* The variables of trigger.py and windowed_accum.py.
trigger == <<args, in0, analog, sb_end, capture, window_detect, pc, quit,
            streaming, last_ret, last_op>>

vars == <<trigger, scripts>>

\* ---------------------------------------------------------------- bounds

\* Number of samples of the stream.
MaxLen == 4

\* Largest --count.
MaxCount == 2

\* Number of 'start'/'stop' lines after which SpecApi makes no further call
\* of __call__ or start.
MaxApiEvents == 3

\* ------------------------------------------------------------- constants

\* Python's None, for a sample id that is not set.
None == 0 - 1

\* _time_start or _time_end is None: no [sample id, time string] list yet.
NoTime == 0 - 2

\* stream_buffer.output_sampling_frequency, in samples per second.
output_sampling_frequency == 2

\* The values of --start_duration and --capture_duration, in tenths of a
\* second: 0 s and 0.8 s (1.6 sample periods).
Durations == {0, 8}

TRIG == {"none", "low", "high", "rising", "falling", "duration"}

Min(S) == CHOOSE x \in S : \A y \in S : x <= y

\* round(duration * output_sampling_frequency), duration given in tenths:
\* to the nearest integer, a half to the even one.
DurationRound(tenths) ==
    LET n == tenths * output_sampling_frequency
        q == n \div 10
        r == n % 10
    IN  IF r > 5 \/ (r = 5 /\ q % 2 = 1) THEN q + 1 ELSE q

\* int(duration * output_sampling_frequency), duration given in tenths.
DurationSamples(tenths) == (tenths * output_sampling_frequency) \div 10

\* Sample i of the trigger channel (FIELD_MAP: in0 -> current_lsb).
Gpi(i) == in0[i + 1]

\* ------------------------------------------------------ trigger searches

\* _in_level_low with np.argmax for np.argmin.
_in_level_low_argmax(start_id, end_id) ==
    LET hit == {i \in start_id .. end_id - 1 : Gpi(i) = 0}
        high == {i \in start_id .. end_id - 1 : Gpi(i) = 1}
    IN  IF hit = {} THEN None
        ELSE IF high # {} THEN Min(high) ELSE start_id

\* np.all(gpi) fails: first index of [start_id, end_id) that is low.
_in_level_low(start_id, end_id) ==
    LET hit == {i \in start_id .. end_id - 1 : Gpi(i) = 0}
    IN  IF hit # {} THEN Min(hit) ELSE None

\* _in_level_high without the np.any(gpi) test: argmax of an all-low
\* array is 0.
_in_level_high_unchecked(start_id, end_id) ==
    LET hit == {i \in start_id .. end_id - 1 : Gpi(i) = 1}
    IN  IF hit # {} THEN Min(hit) ELSE start_id

\* np.any(gpi): first index of [start_id, end_id) that is high.
_in_level_high(start_id, end_id) ==
    LET hit == {i \in start_id .. end_id - 1 : Gpi(i) = 1}
    IN  IF hit # {} THEN Min(hit) ELSE None

\* d = np.diff(gpi): d[k] = gpi[k+1] - gpi[k], k in 0 .. len-2; the result is
\* start_id + argmax(d), the index k of the first d[k] >= 1.
_in_edge_rising(start_id, end_id) ==
    IF start_id <= 0 /\ Gpi(start_id) = 1
    THEN start_id
    ELSE LET hit == {i \in start_id .. end_id - 2 : Gpi(i + 1) - Gpi(i) >= 1}
         IN  IF hit # {} THEN Min(hit) ELSE None

_in_edge_falling(start_id, end_id) ==
    IF start_id <= 0 /\ Gpi(start_id) = 0
    THEN start_id
    ELSE LET hit == {i \in start_id .. end_id - 2 : Gpi(i + 1) - Gpi(i) <= 0 - 1}
         IN  IF hit # {} THEN Min(hit) ELSE None

\* _start_duration sets _time_end when it is None, before it reads it.
_start_duration_time_end(cap, start_id) ==
    IF cap.time_end = NoTime THEN start_id ELSE cap.time_end

_start_duration(cap, start_id, end_id) ==
    LET d == DurationSamples(args.start_duration)
             + _start_duration_time_end(cap, start_id)
    IN  IF end_id > d THEN d ELSE None

_end_duration(cap, start_id, end_id) ==
    LET d == DurationSamples(args.capture_duration) + cap.time_start
    IN  IF end_id > d THEN d ELSE None

\* self._start_fn = getattr(self, f'_start_{args.start}')
_start_fn(cap, start_id, end_id) ==
    CASE args.start = "none"     -> start_id
      [] args.start = "low"      -> _in_level_low(start_id, end_id)
      [] args.start = "high"     -> _in_level_high(start_id, end_id)
      [] args.start = "rising"   -> _in_edge_rising(start_id, end_id)
      [] args.start = "falling"  -> _in_edge_falling(start_id, end_id)
      [] args.start = "duration" -> _start_duration(cap, start_id, end_id)

\* self._end_fn = getattr(self, f'_end_{args.end}')
_end_fn(cap, start_id, end_id) ==
    CASE args.end = "none"     -> None
      [] args.end = "low"      -> _in_level_low(start_id, end_id)
      [] args.end = "high"     -> _in_level_high(start_id, end_id)
      [] args.end = "rising"   -> _in_edge_rising(start_id, end_id)
      [] args.end = "falling"  -> _in_edge_falling(start_id, end_id)
      [] args.end = "duration" -> _end_duration(cap, start_id, end_id)

\* ------------------------------------------------------ Capture methods

\* The line '#' + COLUMNS of the csv file, and the line of a record: the
\* start and end ids stand for the whole row.
CsvHeader == <<"#", None, None>>

CsvRow(start_id, end_id) == <<"row", start_id, end_id>>

\* self._csv.write(line) followed by self._csv.flush() (lines 290-291):
\* what the file object buffered reaches the file together with the line.
csv_write_flush(cap, line) ==
    IF args.csv
    THEN [cap EXCEPT !.csv_disk = @ \o cap.csv_buffer \o <<line>>,
                     !.csv_buffer = <<>>]
    ELSE cap

\* Capture.__init__
CaptureInit ==
    [triggered      |-> FALSE,
     count          |-> 0,
     sample_id_last |-> None,
     time_start     |-> NoTime,
     time_end       |-> NoTime,
     acc            |-> <<>>,     \* sample ids added since the last clear()
     charge         |-> 0,        \* self._charge, in 1e-15 C
     energy         |-> 0,        \* self._energy, in 1e-15 J
     adds           |-> 0,        \* calls of _add that accumulated since then
     ignored        |-> 0,        \* total of the 'Ignored N missing samples'
     raised         |-> FALSE,    \* an exception has left __call__
     csv_buffer     |-> IF args.csv THEN <<CsvHeader>> ELSE <<>>,
                                  \* lines written to self._csv, not flushed
     csv_disk       |-> <<>>,     \* lines of the csv file that are flushed
     events         |-> <<>>,     \* the 'start N' / 'stop N' lines
     records        |-> <<>>,     \* the record lines
     record         |-> <<>>,     \* self._record: <<>> is None, else the one
                                  \* DataRecorder that is open
     recordings     |-> <<>>,     \* the DataRecorders that were closed
     searched       |-> <<>>]     \* <<start_id, end_id>> of every __call__
                                  \* that read samples (line 424)

\* stop() that takes the start id, not _sample_id_last, when no end id is given.
stop_at_time_start(cap, end_id) ==
    IF ~cap.triggered
    THEN cap
    ELSE LET e == IF end_id = None THEN cap.time_start ELSE end_id
             c == [cap EXCEPT
                     !.time_end  = e,
                     !.events    = Append(@, <<"stop", e>>),
                     !.count     = @ + 1,
                     !.records   = Append(@, [start_id |-> cap.time_start,
                                              end_id   |-> e,
                                              samples  |-> cap.acc,
                                              adds     |-> cap.adds,
                                              charge   |-> cap.charge,
                                              energy   |-> cap.energy]),
                     !.recordings = IF cap.record # <<>>
                                    THEN Append(@, [cap.record[1] EXCEPT
                                                       !.end_id = e])
                                    ELSE @,
                     !.record    = <<>>,
                     !.triggered = FALSE]
         IN  csv_write_flush(c, CsvRow(cap.time_start, e))

\* Capture.stop(end_id)
stop(cap, end_id) ==
    IF ~cap.triggered
    THEN cap
    ELSE LET e == IF end_id = None THEN cap.sample_id_last ELSE end_id
             c == [cap EXCEPT
                     !.time_end  = e,
                     !.events    = Append(@, <<"stop", e>>),
                     !.count     = @ + 1,
                     !.records   = Append(@, [start_id |-> cap.time_start,
                                              end_id   |-> e,
                                              samples  |-> cap.acc,
                                              adds     |-> cap.adds,
                                              charge   |-> cap.charge,
                                              energy   |-> cap.energy]),
                     !.recordings = IF cap.record # <<>>
                                    THEN Append(@, [cap.record[1] EXCEPT
                                                       !.end_id = e])
                                    ELSE @,
                     !.record    = <<>>,
                     !.triggered = FALSE]
         IN  csv_write_flush(c, CsvRow(cap.time_start, e))

\* DataRecorder(filename, ...), created by start(start_id): the file of one
\* window, with the ids of the samples inserted so far; end_id is set when
\* it is closed.
DataRecorder(start_id) ==
    [start_id |-> start_id, end_id |-> None, inserted |-> <<>>]

\* self._record.insert(data) with data = samples_get(start_id, end_id).
insert(record, start_id, end_id) ==
    IF record = <<>>
    THEN record
    ELSE <<[record[1] EXCEPT
              !.inserted = @ \o [i \in 1 .. end_id - start_id |-> start_id + i - 1]]>>

\* start() that does not finalize the window that is open.
start_without_stop(cap, start_id) ==
    [cap EXCEPT
       !.time_start = start_id,
       !.events     = Append(@, <<"start", start_id>>),
       !.acc        = <<>>,
       !.charge     = 0,
       !.energy     = 0,
       !.adds       = 0,
       !.record     = IF args.record THEN <<DataRecorder(start_id)>> ELSE @,
       !.triggered  = TRUE]

\* Capture.start(start_id)
start(cap, start_id) ==
    LET c == IF cap.triggered THEN stop(cap, None) ELSE cap
    IN  [c EXCEPT
           !.time_start = start_id,
           !.events     = Append(@, <<"start", start_id>>),
           !.acc        = <<>>,
           !.charge     = 0,
           !.energy     = 0,
           !.adds       = 0,
           !.record     = IF args.record THEN <<DataRecorder(start_id)>> ELSE @,
           !.triggered  = TRUE]

\* Sample id of the analog channels.
Sample(id) == analog[id + 1]

\* finite_idx = np.isfinite(i_all) (line 376): the ids of
\* [start_id, end_id) that _add keeps, in order.
RECURSIVE FiniteIdx(_, _)
FiniteIdx(start_id, end_id) ==
    IF start_id >= end_id
    THEN <<>>
    ELSE (IF Sample(start_id).i_finite THEN <<start_id>> ELSE <<>>)
         \o FiniteIdx(start_id + 1, end_id)

RECURSIVE SumCurrent(_)
SumCurrent(ids) ==
    IF ids = <<>> THEN 0 ELSE Sample(Head(ids)).current + SumCurrent(Tail(ids))

RECURSIVE SumPower(_)
SumPower(ids) ==
    IF ids = <<>> THEN 0 ELSE Sample(Head(ids)).power + SumPower(Tail(ids))

\* int(x): truncation towards zero of n / d, d > 0.
Trunc(n, d) == IF n >= 0 THEN n \div d ELSE 0 - ((0 - n) \div d)

\* The sum taken as it is, not multiplied by the period.
IntegrateNoPeriod(sum) == sum

\* int(np.sum(x) * period * GAIN) with period = 1 / output_sampling_frequency
\* and np.sum(x) * GAIN = sum, an integer number of 1e-15 units.
Integrate(sum) == Trunc(sum, output_sampling_frequency)

\* Capture._add(stream_buffer, start_id, end_id): the samples of
\* [start_id, end_id) whose current is finite go to the accumulators.
\* int() of a sum that is not finite raises (Signal.add, line 183).
_add(cap, start_id, end_id) ==
    LET ids == FiniteIdx(start_id, end_id)
        c == [cap EXCEPT !.ignored = @ + (end_id - start_id) - Len(ids)]
    IN  IF ids = <<>>
        THEN c
        ELSE IF \E k \in 1 .. Len(ids) : ~Sample(ids[k]).v_finite
        THEN [c EXCEPT !.raised = TRUE]
        ELSE [c EXCEPT !.acc    = @ \o ids,
                       !.charge = @ + Integrate(SumCurrent(ids)),
                       !.energy = @ + Integrate(SumPower(ids)),
                       !.adds   = @ + 1,
                       !.record = insert(@, start_id, end_id)]

\* The count test with > for >=.
CountExceeded(cap) == args.count # 0 /\ cap.count > args.count

\* The count test that ends __call__ (line 446).
CountReached(cap) == args.count # 0 /\ cap.count >= args.count

\* One pass of the while loop of __call__, lines 427-445: the Capture
\* after it and the new start_id.
LoopBody(cap, start_id, end_id) ==
    IF ~cap.triggered
    THEN LET trigger_id == _start_fn(cap, start_id, end_id)
             c == IF args.start = "duration"
                  THEN [cap EXCEPT !.time_end = _start_duration_time_end(cap, start_id)]
                  ELSE cap
         IN  IF trigger_id = None
             THEN [cap |-> c, start_id |-> end_id]
             ELSE [cap |-> start(c, trigger_id), start_id |-> trigger_id + 1]
    ELSE LET trigger_id == _end_fn(cap, start_id, end_id)
         IN  IF trigger_id = None
             THEN [cap |-> _add(cap, start_id, end_id), start_id |-> end_id]
             ELSE LET c == IF start_id + 2 < trigger_id
                           THEN _add(cap, start_id, trigger_id - 1)
                           ELSE cap
                  IN  IF c.raised
                      THEN [cap |-> c, start_id |-> start_id]
                      ELSE [cap |-> stop(c, trigger_id),
                            start_id |-> trigger_id + 1]

\* The while loop of __call__, lines 426-450.  An exception raised in
\* the body leaves the loop with what was assigned before it.
RECURSIVE Loop(_, _, _)
Loop(cap, start_id, end_id) ==
    IF start_id < end_id
    THEN LET b == LoopBody(cap, start_id, end_id)
         IN  IF b.cap.raised
             THEN [cap |-> b.cap, ret |-> FALSE]
             ELSE IF CountReached(b.cap)
             THEN [cap |-> b.cap, ret |-> TRUE]
             ELSE Loop([b.cap EXCEPT !.sample_id_last = b.start_id],
                       b.start_id, end_id)
    ELSE [cap |-> [cap EXCEPT !.sample_id_last = end_id], ret |-> FALSE]

\* __call__ without lines 420-421: it begins where the buffer begins.
FirstId_range_start(cap, range_start) == range_start

\* The first id __call__ looks at (lines 419-421).
FirstId(cap, range_start) ==
    IF cap.sample_id_last # None /\ range_start < cap.sample_id_last
    THEN cap.sample_id_last
    ELSE range_start

\* Capture.__call__(stream_buffer), sample_id_range = (range_start, range_end).
Call(cap, range_start, range_end) ==
    LET start_id == FirstId(cap, range_start)
    IN  IF start_id >= range_end
        THEN [cap |-> cap, ret |-> FALSE]
        ELSE Loop([cap EXCEPT !.searched = Append(@, <<start_id, range_end>>)],
                  start_id, range_end)

\* Capture.close(): stop(), then self._csv.close(), which writes what the
\* file object still buffers.
close(cap) ==
    LET c == stop(cap, None)
    IN  [c EXCEPT !.csv_disk = @ \o c.csv_buffer, !.csv_buffer = <<>>]

\* __call__ raises TypeError: _start_duration adds _time_end[0] to an int
\* (line 365) when a stop() before the first __call__ has stored the end id
\* None.  Nothing has been assigned by then.
CallRaises(cap, range_start, range_end) ==
    /\ FirstId(cap, range_start) < range_end
    /\ ~cap.triggered
    /\ args.start = "duration"
    /\ cap.time_end = None

\* ------------------------------------------------------------ the inputs

\* With both durations shorter than one sample period the loop of __call__
\* opens and closes a window at the same id for ever: the call never
\* returns, and there is no state after it.
NeverReturns(a) ==
    /\ a.start = "duration" /\ a.end = "duration"
    /\ DurationSamples(a.start_duration) + DurationSamples(a.capture_duration) = 0

\* A duration that no trigger reads is kept at 0.
Args ==
    {a \in [start : TRIG, end : TRIG, start_duration : Durations,
            capture_duration : Durations, count : 0 .. MaxCount,
            csv : {FALSE}, record : {FALSE}] :
        /\ a.start # "duration" => a.start_duration = 0
        /\ a.end # "duration" => a.capture_duration = 0
        /\ ~NeverReturns(a)}

\* The start of sample_id_range: the buffer still holds every sample that
\* was not processed, and starts at 0 on the first call.
RangeStarts(cap) ==
    IF cap.sample_id_last = None THEN {0} ELSE 0 .. cap.sample_id_last

Op(name) == [name |-> name, open |-> capture.triggered]

\* A sample of the analog channels: current in 1e-15 A and power in
\* 1e-15 W, and whether current and voltage are finite (a missing sample
\* is NaN in both).  Power is the product of current and voltage.
AnalogSample(current, voltage, i_finite, v_finite) ==
    [current |-> current, power |-> current * voltage,
     i_finite |-> i_finite, v_finite |-> v_finite]

\* The sample of the runs in which the analog channels play no part.
FiniteSample == AnalogSample(2, 1, TRUE, TRUE)

\* WindowDetect.__init__ (windowed_accum.py)
WindowDetectInit ==
    [sample_id_last  |-> None,
     sample_id_start |-> None,
     sample_id_end   |-> None,
     filehandle      |-> TRUE,    \* the file of --out is open
     reports         |-> <<>>]    \* the (start, end) of the lines printed

\* ----------------------------------------- the other scripts, constructed

\* Accumulators.__init__ (accumulators.py).  Times are in seconds; prints
\* holds, for every update printed by _on_statistics, the number of the
\* callback that printed it and the duration that callback reported.
AccumulatorsInit ==
    [quit            |-> FALSE,
     update_previous |-> 0,
     update_interval |-> 60,
     callbacks       |-> 0,
     duration_now    |-> 0,
     prints          |-> <<>>,
     pc              |-> "init"]

\* low_voltage_shutoff.py before run(): no device is open.  Voltages are
\* in units of 0.5 V.
ShutoffInit ==
    [threshold |-> 6,       \* --threshold, 3.0 V by default
     quit      |-> FALSE,
     low       |-> FALSE,   \* on_statistics has seen a voltage below it
     stopped   |-> FALSE,   \* on_stop was called (SIGINT or a stop event)
     is_open   |-> FALSE,   \* the device is open
     streaming |-> FALSE,   \* the device streams and reports statistics
     i_range   |-> "off",   \* the current range: "off" disconnects the target
     voltage   |-> 0,       \* the mean voltage of the last update
     updates   |-> 0,
     pc        |-> "init"]

\* downsample_logging.py before the Logger is constructed.
LoggerInit == [pc |-> "init"]

\* The scripts other than the one a specification runs are not started.
ScriptsInit ==
    /\ logger = LoggerInit
    /\ shutoff = ShutoffInit
    /\ accumulators = AccumulatorsInit

InitRun ==
    /\ sb_end = 0
    /\ capture = CaptureInit
    /\ pc = "loop"
    /\ quit = FALSE
    /\ streaming = TRUE
    /\ last_ret = FALSE
    /\ last_op = Op("init")
    /\ window_detect = WindowDetectInit
    /\ ScriptsInit

Init ==
    /\ args \in Args
    /\ in0 \in [1 .. MaxLen -> {0, 1}]
    /\ analog = [i \in 1 .. MaxLen |-> FiniteSample]
    /\ InitRun

\* ------------------------------------------------------------- run()

\* The device thread appends samples to the stream buffer.
Stream ==
    /\ streaming
    /\ \E e \in sb_end + 1 .. MaxLen : sb_end' = e
    /\ last_op' = Op("stream")
    /\ UNCHANGED <<scripts, args, in0, analog, window_detect, capture, pc, quit, streaming, last_ret>>

\* _on_stop: SIGINT, or the stop callback of the device.
OnStop ==
    /\ pc = "loop"
    /\ ~quit
    /\ quit' = TRUE
    /\ last_op' = Op("_on_stop")
    /\ UNCHANGED <<scripts, args, in0, analog, window_detect, sb_end, capture, pc, streaming, last_ret>>

\* run() returning as soon as the polling loop ends.
AfterLoopReturn == "done"

\* Where run() goes when the polling loop ends (line 509).
AfterLoop == "device_stop"

\* One pass of `while not _quit`: sleep, then capture(device.stream_buffer);
\* True breaks out of the loop.
Poll ==
    /\ pc = "loop"
    /\ ~quit
    /\ \E s \in RangeStarts(capture) :
         LET r == Call(capture, s, sb_end)
         IN  /\ capture' = r.cap
             /\ last_ret' = r.ret
             /\ pc' = IF r.cap.raised THEN "raised"
                      ELSE IF r.ret THEN AfterLoop ELSE "loop"
    /\ last_op' = Op("__call__")
    /\ UNCHANGED <<scripts, args, in0, analog, window_detect, sb_end, quit, streaming>>

\* `while not _quit` finds the flag set.
LoopExit ==
    /\ pc = "loop"
    /\ quit
    /\ pc' = AfterLoop
    /\ last_op' = Op("loop_exit")
    /\ UNCHANGED <<scripts, args, in0, analog, window_detect, sb_end, capture, quit, streaming, last_ret>>

\* device.stop()
DeviceStop ==
    /\ pc = "device_stop"
    /\ streaming' = FALSE
    /\ pc' = "close"
    /\ last_op' = Op("device.stop")
    /\ UNCHANGED <<scripts, args, in0, analog, window_detect, sb_end, capture, quit, last_ret>>

\* capture.close()
Close ==
    /\ pc = "close"
    /\ capture' = close(capture)
    /\ pc' = "done"
    /\ last_op' = Op("close")
    /\ UNCHANGED <<scripts, args, in0, analog, window_detect, sb_end, quit, streaming, last_ret>>

Next == Stream \/ OnStop \/ Poll \/ LoopExit \/ DeviceStop \/ Close

Spec == Init /\ [][Next]_vars

\* ------------------------------------------- the example of the test list

\* The trigger channel of the example: ids 0..7.
ExampleIn0 == <<0, 1, 1, 1, 0, 0, 1, 0>>

InitExample ==
    /\ args = [start |-> "rising", end |-> "falling", start_duration |-> 0,
               capture_duration |-> 0, count |-> 0, csv |-> FALSE,
               record |-> FALSE]
    /\ in0 = ExampleIn0
    /\ analog = [i \in 1 .. Len(ExampleIn0) |-> FiniteSample]
    /\ InitRun

\* run() on the example stream, under every batching of its samples.
StreamExample ==
    /\ streaming
    /\ \E e \in sb_end + 1 .. Len(in0) : sb_end' = e
    /\ last_op' = Op("stream")
    /\ UNCHANGED <<scripts, args, in0, analog, window_detect, capture, pc, quit, streaming, last_ret>>

NextExample == StreamExample \/ OnStop \/ Poll \/ LoopExit \/ DeviceStop \/ Close

SpecExample == InitExample /\ [][NextExample]_vars

\* ------------------------------------- the public methods, in any order

\* capture(stream_buffer); no caller invokes it again once it returned True.
ApiCall ==
    /\ ~last_ret
    /\ Len(capture.events) < MaxApiEvents
    /\ \E s \in RangeStarts(capture) :
         /\ ~CallRaises(capture, s, sb_end)
         /\ LET r == Call(capture, s, sb_end)
            IN  /\ capture' = r.cap
                /\ last_ret' = r.ret
    /\ last_op' = Op("__call__")
    /\ UNCHANGED <<scripts, args, in0, analog, window_detect, sb_end, pc, quit, streaming>>

\* capture.start(id)
ApiStart ==
    /\ Len(capture.events) < MaxApiEvents
    /\ \E id \in {0, sb_end} :
         /\ capture' = start(capture, id)
         /\ last_op' = Op("start")
    /\ UNCHANGED <<scripts, args, in0, analog, window_detect, sb_end, pc, quit, streaming, last_ret>>

\* capture.stop(id) and capture.stop()
ApiStop ==
    /\ \E id \in {None, sb_end} :
         /\ capture' = stop(capture, id)
         /\ last_op' = Op(IF id = None THEN "stop()" ELSE "stop(id)")
    /\ UNCHANGED <<scripts, args, in0, analog, window_detect, sb_end, pc, quit, streaming, last_ret>>

\* capture.close()
ApiClose ==
    /\ capture' = close(capture)
    /\ last_op' = Op("close")
    /\ UNCHANGED <<scripts, args, in0, analog, window_detect, sb_end, pc, quit, streaming, last_ret>>

NextApi == Stream \/ ApiCall \/ ApiStart \/ ApiStop \/ ApiClose

\* The stream of SpecApi: the alternating one that begins low, which holds
\* both edges and both levels.
ApiStreams == {[i \in 1 .. MaxLen |-> (i + 1) % 2]}

\* The command lines of SpecApi: an immediate, an edge and a duration
\* trigger on either side.
ApiArgs ==
    {a \in Args : /\ a.start \in {"none", "rising", "duration"}
                  /\ a.end \in {"none", "falling", "duration"}
                  /\ a.count <= 1}

InitApi ==
    /\ args \in ApiArgs
    /\ in0 \in ApiStreams
    /\ analog = [i \in 1 .. MaxLen |-> FiniteSample]
    /\ InitRun

SpecApi == InitApi /\ [][NextApi]_vars

\* ------------------------------------------------------------ the claims

\* Every sample of the stream has been processed by __call__.
StreamProcessed == capture.sample_id_last = Len(in0)

\* The whole stream handed to a new Capture in one call.
OneBatch == Call(CaptureInit, 0, Len(in0)).cap

\* The ids start_id .. end_id - 1, in order.
IdRange(start_id, end_id) == [k \in 1 .. (end_id - start_id) |-> start_id + k - 1]

Edges == {"rising", "falling"}

\* Sample i is high and sample i-1 low (rising), or the reverse (falling);
\* sample 0 has no predecessor.
EdgeAt(mode, i) ==
    IF mode = "rising"
    THEN Gpi(i) = 1 /\ (i = 0 \/ Gpi(i - 1) = 0)
    ELSE Gpi(i) = 0 /\ (i = 0 \/ Gpi(i - 1) = 1)

\* The start condition of args.start, evaluated at sample j after a window
\* that ended at j.
StartHoldsAt(j) ==
    CASE args.start = "none"     -> TRUE
      [] args.start = "low"      -> Gpi(j) = 0
      [] args.start = "high"     -> Gpi(j) = 1
      [] args.start \in Edges    -> EdgeAt(args.start, j)
      [] args.start = "duration" -> DurationSamples(args.start_duration) = 0

\* C1: once the whole stream has been fed, in whatever batches, the records
\* emitted are those of a single call over the whole stream: the same start
\* ids, end ids and accumulated samples.
C1_BatchInvariance ==
    (pc # "done" /\ (StreamProcessed \/ last_ret))
        => capture.records = OneBatch.records

\* C2: the samples accumulated into a record are exactly those with ids in
\* [start_id, end_id), each once.
C2_WindowSamples ==
    \A k \in DOMAIN capture.records :
        LET r == capture.records[k]
        IN  r.samples = IdRange(r.start_id, r.end_id)

\* C3: with an edge trigger the id of every start (and of every stop made by
\* the end trigger) is a sample at which the signal has the new level while
\* the sample before it has the old one, and the first window opens at the
\* first such sample of the stream.
C3_EdgeIndex ==
    pc # "done" =>
        \A k \in DOMAIN capture.events :
            LET ev == capture.events[k]
            IN  /\ (ev[1] = "start" /\ args.start \in Edges)
                      => EdgeAt(args.start, ev[2])
                /\ (ev[1] = "stop" /\ args.end \in Edges)
                      => EdgeAt(args.end, ev[2])
                /\ (k = 1 /\ args.start \in Edges)
                      => \A i \in 0 .. ev[2] - 1 : ~EdgeAt(args.start, i)

\* C4: on the example stream with start=rising and end=falling, once the
\* eight samples are processed the windows opened are those at 1 and 6, the
\* first closed at 4 and the second still open; the flush closes it.
C4_Example ==
    /\ (pc = "loop" /\ StreamProcessed)
          => /\ capture.events = << <<"start", 1>>, <<"stop", 4>>, <<"start", 6>> >>
             /\ capture.triggered
    /\ (pc = "done" /\ StreamProcessed)
          => capture.events = << <<"start", 1>>, <<"stop", 4>>, <<"start", 6>>,
                                 <<"stop", 8>> >>

\* C5: a window that follows a window closed at j does not open before j,
\* and opens at j when the start condition holds at j.
C5_NoSampleSkipped ==
    \A k \in 1 .. Len(capture.events) - 1 :
        LET j == capture.events[k][2]
            i == capture.events[k + 1][2]
        IN  (capture.events[k][1] = "stop" /\ j < Len(in0))
                => /\ i >= j
                   /\ StartHoldsAt(j) => i = j

\* C6: every record has end_id > start_id.
C6_NonEmptyWindow ==
    \A k \in DOMAIN capture.records :
        capture.records[k].end_id > capture.records[k].start_id

\* C7: the 'start' and 'stop' events alternate, beginning with a start; a
\* window is open exactly after an unmatched start; record k pairs the k-th
\* start with the k-th stop; and a start() that finds a window open has
\* finalized it (at _sample_id_last) before it opened the new one.
C7_OneWindow ==
    LET ev == capture.events
        rec == capture.records
    IN  /\ \A k \in DOMAIN ev : ev[k][1] = IF k % 2 = 1 THEN "start" ELSE "stop"
        /\ capture.triggered <=> (Len(ev) % 2 = 1)
        /\ Len(rec) = Len(ev) \div 2
        /\ capture.count = Len(rec)
        /\ \A k \in DOMAIN rec : /\ rec[k].start_id = ev[2 * k - 1][2]
                                 /\ rec[k].end_id = ev[2 * k][2]
        /\ (last_op.name = "start" /\ last_op.open)
              => /\ Len(ev) >= 3
                 /\ ev[Len(ev) - 1] = <<"stop", capture.sample_id_last>>

\* start() was called while a window was open.
C7_Witness ==
    /\ last_op.name = "start"
    /\ last_op.open
    /\ Len(capture.records) >= 1

\* C8: with count N > 0 no more than N records are ever emitted; the call
\* that emits the N-th returns True with no window open, and run() has left
\* the polling loop; a call returns True only then.  With count 0 no call
\* returns True.
C8_CountLimit ==
    /\ args.count = 0 => ~last_ret
    /\ args.count > 0 =>
          /\ Len(capture.records) <= args.count
          /\ (pc # "done" /\ Len(capture.records) = args.count) => last_ret
          /\ last_ret => /\ Len(capture.records) = args.count
                         /\ ~capture.triggered
                         /\ capture.events[Len(capture.events)][1] = "stop"
                         /\ pc # "loop"

\* The second of two records was emitted by a call that returned True, and
\* run() has finished.
C8_Witness ==
    /\ args.count = 2
    /\ last_ret
    /\ pc = "done"
    /\ Len(capture.records) = 2

\* C9: stop() without an end id, and close(), emit exactly one record,
\* ending at _sample_id_last, when a window is open, and none when no window
\* is open; a flush that directly follows a flush emits nothing.
C9_Flush ==
    [][ last_op'.name \in {"stop()", "close"} =>
          /\ IF capture.triggered
             THEN /\ capture'.records =
                        Append(capture.records,
                               [start_id |-> capture.time_start,
                                end_id   |-> capture.sample_id_last,
                                samples  |-> capture.acc,
                                adds     |-> capture.adds,
                                charge   |-> capture.charge,
                                energy   |-> capture.energy])
             ELSE capture'.records = capture.records
          /\ last_op.name \in {"stop()", "close"}
                => capture'.records = capture.records ]_vars

\* close() has flushed a window that __call__ had opened.
C9_Witness ==
    /\ last_op.name = "close"
    /\ last_op.open
    /\ capture.sample_id_last > 0
    /\ Len(capture.records) >= 1
    /\ capture.records[Len(capture.records)].end_id = capture.sample_id_last

\* C10: run() is past the polling loop only when _quit is set or the count
\* was reached; capture.close() runs only after device.stop(); and when run()
\* is done the device is stopped, no window is open and every window that
\* was opened has its record.
C10_StopAndClose ==
    /\ pc # "loop" => (quit \/ last_ret)
    /\ pc \in {"close", "done"} => ~streaming
    /\ pc = "done" => /\ ~capture.triggered
                      /\ Len(capture.events) = 2 * Len(capture.records)

\* The window open at a SIGINT was reported by close(): with end=none
\* nothing else emits a record.
C10_Witness ==
    /\ pc = "done"
    /\ quit
    /\ args.end = "none"
    /\ last_op.open
    /\ Len(capture.records) = 1

\* --------------------------------- run() on a stream with missing samples

\* The analog samples of SpecMissing: a finite one, one that is missing
\* (current and voltage NaN), and one whose voltage alone is not finite.
MissingSamples ==
    {FiniteSample,
     AnalogSample(0, 0, FALSE, FALSE),
     AnalogSample(2, 0, TRUE, FALSE)}

\* The command lines of SpecMissing: immediate and level triggers.
MissingArgs ==
    {a \in Args : /\ a.start \in {"none", "high"}
                  /\ a.end \in {"none", "low"}
                  /\ a.count = 0}

InitMissing ==
    /\ args \in MissingArgs
    /\ in0 \in [1 .. MaxLen -> {0, 1}]
    /\ analog \in [1 .. MaxLen -> MissingSamples]
    /\ InitRun

SpecMissing == InitMissing /\ [][Next]_vars

\* The sample is finite in current and in voltage.
IsFinite(id) == Sample(id).i_finite /\ Sample(id).v_finite

\* Number of ids of lo .. hi - 1 that are not finite.
NotFinite(lo, hi) == Cardinality({id \in lo .. hi - 1 : ~IsFinite(id)})

\* C11: a sample whose current or voltage is not finite never reaches the
\* accumulators of a window, nor those of a record; no exception leaves
\* Capture; and with --start none --end none, where every processed sample
\* but the first is handed to _add, the 'Ignored N missing samples' lines
\* count exactly the samples that are not finite.
C11_MissingExcluded ==
    /\ ~capture.raised
    /\ \A k \in 1 .. Len(capture.acc) : IsFinite(capture.acc[k])
    /\ \A r \in 1 .. Len(capture.records) :
         \A k \in 1 .. Len(capture.records[r].samples) :
            IsFinite(capture.records[r].samples[k])
    /\ (args.start = "none" /\ args.end = "none" /\ capture.triggered)
         => capture.ignored = NotFinite(1, capture.sample_id_last)

\* ------------------------- run() on a buffer that has dropped samples

\* One pass of the polling loop when the stream buffer has overwritten
\* samples that __call__ never processed: sample_id_range starts beyond
\* _sample_id_last.
PollAfterLoss ==
    /\ pc = "loop"
    /\ ~quit
    /\ capture.sample_id_last # None
    /\ \E s \in capture.sample_id_last + 1 .. sb_end - 1 :
         LET r == Call(capture, s, sb_end)
         IN  /\ capture' = r.cap
             /\ last_ret' = r.ret
             /\ pc' = IF r.cap.raised THEN "raised"
                      ELSE IF r.ret THEN AfterLoop ELSE "loop"
    /\ last_op' = Op("__call__ after loss")
    /\ UNCHANGED <<scripts, args, in0, analog, window_detect, sb_end, quit, streaming>>

NextLoss == Next \/ PollAfterLoss

\* The command lines of SpecLoss: an immediate and an edge trigger on
\* either side.
LossArgs ==
    {a \in Args : /\ a.start \in {"none", "rising"}
                  /\ a.end \in {"none", "falling"}
                  /\ a.count = 0}

InitLoss ==
    /\ args \in LossArgs
    /\ in0 \in [1 .. MaxLen -> {0, 1}]
    /\ analog = [i \in 1 .. MaxLen |-> FiniteSample]
    /\ InitRun

SpecLoss == InitLoss /\ [][NextLoss]_vars

\* C12: a call of __call__ that finds the start of sample_id_range beyond
\* _sample_id_last ends in an error that reaches the caller.
C12_Discontinuity ==
    last_op.name = "__call__ after loss" => capture.raised

\* --------------------------------------------- claims about the triggers

\* No sample of the stream satisfies the start condition: the channel is
\* low throughout for high and rising, high throughout for low and falling.
NoStartCondition ==
    CASE args.start \in {"high", "rising"} -> \A i \in 0 .. Len(in0) - 1 : Gpi(i) = 0
      [] args.start \in {"low", "falling"} -> \A i \in 0 .. Len(in0) - 1 : Gpi(i) = 1
      [] OTHER -> FALSE

Level(mode) == IF mode = "low" THEN 0 ELSE 1

Levels == {"low", "high"}

\* The first id that is not yet processed when event k, a start, is
\* searched: 0 at first, and the id after the last stop.
SearchFrom(k) == IF k = 1 THEN 0 ELSE capture.events[k - 1][2] + 1

\* Event k is the stop that close() made of the open window.
IsFlush(k) == k = Len(capture.events) /\ pc = "done" /\ last_op.open

WholePeriods(tenths) ==
    CHOOSE n \in 0 .. tenths * output_sampling_frequency :
        /\ n * 10 <= tenths * output_sampling_frequency
        /\ (n + 1) * 10 > tenths * output_sampling_frequency

\* With end=duration, the stops made by the end trigger are count samples
\* after their start and below the end of the buffer, and a window stays
\* open only while no id beyond start + count has been processed (the id
\* after the start is processed by the pass that opens the window).
EndAfter(count) ==
    args.end = "duration" =>
        /\ \A k \in 1 .. Len(capture.events) :
              (k % 2 = 0 /\ ~IsFlush(k)) =>
                  /\ capture.events[k][2] = capture.events[k - 1][2] + count
                  /\ capture.events[k][2] < sb_end
        /\ capture.triggered =>
              capture.sample_id_last
                  <= capture.time_start + (IF count = 0 THEN 1 ELSE count)

\* C15 as stated: with end=duration the window closes at start_id +
\* round(capture_duration * output_sampling_frequency), once a sample with
\* a larger id is in the buffer, whatever the channels hold.
C15_Rounded == EndAfter(DurationRound(args.capture_duration))

\* C15 amended: the window closes at start_id + the number of whole
\* sample periods of capture_duration (the product truncated, not
\* rounded), once a sample with a larger id is in the buffer.
C15_Truncated == EndAfter(WholePeriods(args.capture_duration))

\* A window of 0.8 s (1.6 sample periods) was closed by the end trigger.
C15_Witness ==
    /\ args.end = "duration"
    /\ args.capture_duration = 8
    /\ Len(capture.events) >= 2
    /\ ~IsFlush(2)

\* ------------------------------- run() on a stream of small currents

\* The analog samples of SpecCharge: 1e-15 A at 3 V, -3e-15 A at 3 V, and
\* a missing sample.  At output_sampling_frequency samples per second a
\* sample of 1e-15 A carries less than one unit of charge.
ChargeSamples ==
    {AnalogSample(1, 3, TRUE, TRUE),
     AnalogSample(0 - 3, 3, TRUE, TRUE),
     AnalogSample(0, 0, FALSE, FALSE)}

\* The command lines of SpecCharge: a window from the first sample, ended
\* by a low level or by close().
ChargeArgs ==
    {a \in Args : /\ a.start = "none"
                  /\ a.end \in {"none", "low"}
                  /\ a.count = 0}

InitCharge ==
    /\ args \in ChargeArgs
    /\ in0 \in [1 .. MaxLen -> {0, 1}]
    /\ analog \in [1 .. MaxLen -> ChargeSamples]
    /\ InitRun

SpecCharge == InitCharge /\ [][Next]_vars

Abs(x) == IF x < 0 THEN 0 - x ELSE x

\* The accumulated totals of the open window, and those of every record.
Totals ==
    {[samples |-> capture.acc, charge |-> capture.charge,
      energy |-> capture.energy, adds |-> capture.adds]}
    \cup {[samples |-> capture.records[k].samples,
           charge |-> capture.records[k].charge,
           energy |-> capture.records[k].energy,
           adds |-> capture.records[k].adds] : k \in 1 .. Len(capture.records)}

\* The integer total is within one unit per call of _add of sum / fs, the
\* sum of the accumulated samples times the period (both sides times fs).
WithinOnePerAdd(total, sum, adds) ==
    IF adds = 0
    THEN total = 0
    ELSE Abs(output_sampling_frequency * total - sum)
             < output_sampling_frequency * adds

\* The integer total is within 1e-6, relative, of sum / fs.
WithinRelative(total, sum) ==
    1000000 * Abs(output_sampling_frequency * total - sum) <= Abs(sum)

\* C16 as stated: charge and energy are the sums of the accumulated finite
\* samples times the sample period, truncated to integers of 1e-15 once per
\* call of _add, so that they are less than one unit per call away from the
\* exact sum, and within 1e-6 relative of it.
C16_Relative ==
    \A t \in Totals :
        /\ \A k \in 1 .. Len(t.samples) : Sample(t.samples[k]).i_finite
        /\ WithinOnePerAdd(t.charge, SumCurrent(t.samples), t.adds)
        /\ WithinOnePerAdd(t.energy, SumPower(t.samples), t.adds)
        /\ WithinRelative(t.charge, SumCurrent(t.samples))
        /\ WithinRelative(t.energy, SumPower(t.samples))

\* C16 amended: the same without the relative bound.
C16_Truncated ==
    \A t \in Totals :
        /\ \A k \in 1 .. Len(t.samples) : Sample(t.samples[k]).i_finite
        /\ WithinOnePerAdd(t.charge, SumCurrent(t.samples), t.adds)
        /\ WithinOnePerAdd(t.energy, SumPower(t.samples), t.adds)

\* A record whose charge was accumulated by two calls of _add and is not the
\* exact sum.
C16_Witness ==
    \E k \in 1 .. Len(capture.records) :
        LET r == capture.records[k]
        IN  /\ r.adds >= 2
            /\ output_sampling_frequency * r.charge # SumCurrent(r.samples)
            /\ r.charge # 0

\* -------------------------------------------------- run() with --csv

\* The command lines of SpecCsv: --csv with an immediate or an edge trigger
\* on either side.
CsvArgs ==
    {[a EXCEPT !.csv = TRUE] :
        a \in {b \in Args : /\ b.start \in {"none", "rising"}
                            /\ b.end \in {"none", "falling"}
                            /\ b.count <= 1}}

InitCsv ==
    /\ args \in CsvArgs
    /\ in0 \in [1 .. MaxLen -> {0, 1}]
    /\ analog = [i \in 1 .. MaxLen |-> FiniteSample]
    /\ InitRun

SpecCsv == InitCsv /\ [][Next]_vars

\* The header followed by one row per record, in the order of emission.
CsvExpected ==
    <<CsvHeader>> \o [k \in 1 .. Len(capture.records) |->
                        CsvRow(capture.records[k].start_id,
                               capture.records[k].end_id)]

\* C17: between the operations of run() the csv file holds the header and
\* one row per record, in order, and the file object holds nothing that is
\* written and not flushed.
C17_CsvFlushed ==
    /\ capture.csv_buffer = <<>>
    /\ capture.csv_disk = CsvExpected

\* ------------------------------------------- run() without --count

\* The default of --count in get_parser.
CountDefault == 0

InitDefault ==
    /\ args \in {a \in Args : a.count = CountDefault}
    /\ in0 \in [1 .. MaxLen -> {0, 1}]
    /\ analog = [i \in 1 .. MaxLen |-> FiniteSample]
    /\ InitRun

SpecDefault == InitDefault /\ [][Next]_vars

\* C18: without --count the polling loop has ended once the first record
\* is emitted, and no second record follows.
C18_DefaultCount ==
    /\ Len(capture.records) >= 1 => pc # "loop"
    /\ Len(capture.records) <= 1

\* ------------------------------------- windowed_accum.py: WindowDetect

\* The shortest window that is reported, in samples.
SAMPLE_COUNT_MIN == 10

\* WindowDetect._process(stream_buffer, start_id, end_id): the line of the
\* window, unless it is shorter than SAMPLE_COUNT_MIN.
_process(wd, start_id, end_id) ==
    IF end_id - start_id < SAMPLE_COUNT_MIN
    THEN wd
    ELSE [wd EXCEPT !.reports = Append(@, <<start_id, end_id>>)]

\* The while loop of WindowDetect.__call__ (lines 94-113).  gpi is the
\* slice [gpi_id, end_id) of the channel: it is fetched from sample_id_last
\* and cut by samples_consumed, which is counted from start_id.
RECURSIVE WindowDetectLoop(_, _, _, _)
WindowDetectLoop(wd, start_id, end_id, gpi_id) ==
    IF start_id >= end_id
    THEN wd
    ELSE LET high == {i \in gpi_id .. end_id - 1 : Gpi(i) = 1}
             low == {i \in gpi_id .. end_id - 1 : Gpi(i) = 0}
             w == IF wd.sample_id_start = None
                  THEN IF high # {}
                       THEN [wd EXCEPT !.sample_id_start =
                                wd.sample_id_last + (Min(high) - gpi_id)]
                       ELSE wd
                  ELSE IF low # {}
                       THEN LET e == wd.sample_id_last + (Min(low) - gpi_id)
                            IN  [_process(wd, wd.sample_id_start, e)
                                   EXCEPT !.sample_id_end = e,
                                          !.sample_id_start = None]
                       ELSE wd
             next_id == IF wd.sample_id_start = None
                        THEN IF high # {} THEN w.sample_id_start ELSE end_id
                        ELSE IF low # {} THEN w.sample_id_end ELSE end_id
             samples_consumed == next_id - start_id
             cut == IF gpi_id + samples_consumed > end_id
                    THEN end_id
                    ELSE gpi_id + samples_consumed
         IN  WindowDetectLoop([w EXCEPT !.sample_id_last = next_id],
                              next_id, end_id, cut)

\* WindowDetect.__call__(stream_buffer), sample_id_range =
\* (range_start, range_end).
WindowDetect(wd, range_start, range_end) ==
    IF range_start >= range_end
    THEN wd
    ELSE IF wd.sample_id_last = None
    THEN WindowDetectLoop([wd EXCEPT !.sample_id_last = range_start],
                          range_start, range_end, range_start)
    ELSE IF wd.sample_id_last >= range_end
    THEN wd
    ELSE WindowDetectLoop(wd, range_start, range_end, wd.sample_id_last)

\* WindowDetect.close(): the output file is closed.
WindowDetectClose(wd) == [wd EXCEPT !.filehandle = FALSE]

\* ------------------------------------------ windowed_accum.py: run()

\* Largest number of low samples before, between and after the two high
\* runs of a stream of SpecWindow.
MaxGap == 1

\* n samples of value v.
Run(v, n) == [k \in 1 .. n |-> v]

\* The streams of SpecWindow: two high runs, each one sample short of
\* SAMPLE_COUNT_MIN or just as long, between low runs.
WindowStreams ==
    {Run(0, a) \o Run(1, h1) \o Run(0, b) \o Run(1, h2) \o Run(0, c) :
        a \in 0 .. MaxGap, b \in 1 .. MaxGap, c \in 0 .. MaxGap,
        h1 \in SAMPLE_COUNT_MIN - 1 .. SAMPLE_COUNT_MIN,
        h2 \in SAMPLE_COUNT_MIN - 1 .. SAMPLE_COUNT_MIN}

InitWindow ==
    /\ in0 \in WindowStreams
    /\ args = [start |-> "none", end |-> "none", start_duration |-> 0,
               capture_duration |-> 0, count |-> 0, csv |-> FALSE,
               record |-> FALSE]
    /\ analog = [i \in 1 .. Len(in0) |-> FiniteSample]
    /\ InitRun

\* on_stop: SIGINT, or the stop callback of the device.
WindowOnStop ==
    /\ pc = "loop"
    /\ ~quit
    /\ quit' = TRUE
    /\ last_op' = Op("on_stop")
    /\ UNCHANGED <<scripts, args, in0, analog, window_detect, sb_end, capture, pc,
                   streaming, last_ret>>

\* One pass of `while not _quit`: sleep, then
\* window_detect(device.stream_buffer).
WindowPoll ==
    /\ pc = "loop"
    /\ ~quit
    /\ \E s \in RangeStarts(window_detect) :
         window_detect' = WindowDetect(window_detect, s, sb_end)
    /\ last_op' = Op("window_detect")
    /\ UNCHANGED <<scripts, args, in0, analog, sb_end, capture, pc, quit, streaming,
                   last_ret>>

\* `while not _quit` finds the flag set.
WindowLoopExit ==
    /\ pc = "loop"
    /\ quit
    /\ pc' = "device_stop"
    /\ last_op' = Op("loop_exit")
    /\ UNCHANGED <<scripts, args, in0, analog, window_detect, sb_end, capture, quit,
                   streaming, last_ret>>

\* device.stop()
WindowDeviceStop ==
    /\ pc = "device_stop"
    /\ streaming' = FALSE
    /\ pc' = "close"
    /\ last_op' = Op("device.stop")
    /\ UNCHANGED <<scripts, args, in0, analog, window_detect, sb_end, capture, quit,
                   last_ret>>

\* window_detect.close()
WindowClose ==
    /\ pc = "close"
    /\ window_detect' = WindowDetectClose(window_detect)
    /\ pc' = "done"
    /\ last_op' = Op("window_detect.close")
    /\ UNCHANGED <<scripts, args, in0, analog, sb_end, capture, quit, streaming,
                   last_ret>>

NextWindow ==
    \/ StreamExample \/ WindowOnStop \/ WindowPoll \/ WindowLoopExit
    \/ WindowDeviceStop \/ WindowClose

SpecWindow == InitWindow /\ [][NextWindow]_vars

\* The windows of the samples 0 .. n - 1: every maximal run of high samples
\* of at least SAMPLE_COUNT_MIN samples that is followed by a low sample,
\* in order; open is the start of the run that sample i continues.
RECURSIVE Windows(_, _, _)
Windows(i, open, n) ==
    IF i >= n
    THEN <<>>
    ELSE IF Gpi(i) = 1
    THEN Windows(i + 1, IF open = None THEN i ELSE open, n)
    ELSE (IF open # None /\ i - open >= SAMPLE_COUNT_MIN
          THEN << <<open, i>> >>
          ELSE <<>>) \o Windows(i + 1, None, n)

\* C19: whatever the batches, and wherever the buffer starts at or below
\* the last processed id, the windows reported are the maximal high runs of
\* at least SAMPLE_COUNT_MIN samples that have ended within the processed
\* samples, each once and in order: those of a single call.
C19_WindowRuns ==
    window_detect.sample_id_last # None =>
        window_detect.reports = Windows(0, None, window_detect.sample_id_last)

\* C20: when run() is done, a window that was open for at least
\* SAMPLE_COUNT_MIN samples when the loop was left has been reported, from
\* its start to the last sample id seen.
C20_OpenWindowReported ==
    (/\ pc = "done"
     /\ window_detect.sample_id_start # None
     /\ window_detect.sample_id_last - window_detect.sample_id_start
            >= SAMPLE_COUNT_MIN)
        => /\ window_detect.reports # <<>>
           /\ window_detect.reports[Len(window_detect.reports)]
                 = <<window_detect.sample_id_start,
                     window_detect.sample_id_last>>

\* Sample s is the first of a run of high samples.
HighRunStart(s) == Gpi(s) = 1 /\ (s = 0 \/ Gpi(s - 1) = 0)

\* The id after the last sample of the run of high samples that holds s.
HighRunEnd(s) ==
    Min({e \in s + 1 .. Len(in0) : e = Len(in0) \/ Gpi(e) = 0})

\* The run of high samples that ends before s: its start, or None.
HighRunBefore(s) ==
    LET before == {b \in 0 .. s - 1 : HighRunStart(b) /\ HighRunEnd(b) < s}
    IN  IF before = {} THEN None
        ELSE CHOOSE b \in before : \A c \in before : c <= b

\* The run that starts at s is detected as a window of its own: open from
\* s while it has not ended, reported from s to its end once it has, unless
\* it is short itself.
DetectedAt(s) ==
    LET e == HighRunEnd(s)
        reports == {window_detect.reports[k] :
                        k \in 1 .. Len(window_detect.reports)}
    IN  IF e >= window_detect.sample_id_last
        THEN window_detect.sample_id_start = s
        ELSE /\ \/ window_detect.sample_id_start = None
                \/ window_detect.sample_id_start > e
             /\ e - s >= SAMPLE_COUNT_MIN => <<s, e>> \in reports

\* C29: no window shorter than SAMPLE_COUNT_MIN samples is reported, and
\* after a run of high samples too short to be reported has ended, the next
\* run of high samples is detected as a new window that starts at its
\* first sample.
C29_Debounce ==
    /\ \A k \in 1 .. Len(window_detect.reports) :
          window_detect.reports[k][2] - window_detect.reports[k][1]
              >= SAMPLE_COUNT_MIN
    /\ window_detect.sample_id_last # None =>
          \A s \in 0 .. window_detect.sample_id_last - 1 :
              LET b == HighRunBefore(s)
              IN  /\ HighRunStart(s)
                  /\ b # None
                  /\ HighRunEnd(b) - b < SAMPLE_COUNT_MIN
                  => DetectedAt(s)

\* The reference index of _start_duration is defined: no __call__ that can
\* be made in this state reads the end id None.
ReferenceDefined ==
    \A s \in RangeStarts(capture) : ~CallRaises(capture, s, sb_end)

\* The windows that this step of __call__ opens with start=duration open D
\* samples after the reference: the end id of the window before, or the
\* first id processed (0, the start of the stream) when there is none.
OpensAfter(D) ==
    (args.start = "duration" /\ last_op'.name = "__call__") =>
        \A k \in Len(capture.events) + 1 .. Len(capture'.events) :
            capture'.events[k][1] = "start" =>
                capture'.events[k][2] =
                    (IF k = 1 THEN 0 ELSE capture'.events[k - 1][2]) + D

\* C25: with start=duration and D = round(start_duration x sampling
\* frequency) the first window opens D samples after the first sample id
\* processed and every later window D samples after the end id of the
\* window before; the reference index is defined whenever a call uses it,
\* whatever the order of the calls of start, stop, close and __call__.
C25_StartDuration ==
    /\ []ReferenceDefined
    /\ [][OpensAfter(DurationRound(args.start_duration))]_vars

\* The same with D = int(start_duration x sampling frequency), as
\* _start_duration computes it.
OpensAfterTruncated == [][OpensAfter(DurationSamples(args.start_duration))]_vars

\* The command lines with --record.
RecordArgs == {[a EXCEPT !.record = TRUE] : a \in Args}

InitRecord ==
    /\ args \in RecordArgs
    /\ in0 \in [1 .. MaxLen -> {0, 1}]
    /\ analog = [i \in 1 .. MaxLen |-> FiniteSample]
    /\ InitRun

SpecRecord == InitRecord /\ [][Next]_vars

\* A recorder is open exactly while a window is open, every window that
\* was finalized has its own recorder, closed with it, and none is open
\* when run() is done.
RecorderLifecycle ==
    /\ (capture.record # <<>>) <=> capture.triggered
    /\ capture.record # <<>> => capture.record[1].start_id = capture.time_start
    /\ Len(capture.recordings) = Len(capture.records)
    /\ \A k \in 1 .. Len(capture.recordings) :
          /\ capture.recordings[k].start_id = capture.records[k].start_id
          /\ capture.recordings[k].end_id = capture.records[k].end_id
    /\ pc = "done" => capture.record = <<>>

\* C26: with --record a recorder is open exactly while a window is open,
\* one per window, closed when the window is finalized and none left open
\* after close(); the recorder of a window was given exactly the samples
\* [start_id, end_id) of that window.
C26_Recorder ==
    /\ RecorderLifecycle
    /\ \A k \in 1 .. Len(capture.recordings) :
          capture.recordings[k].inserted =
              IdRange(capture.recordings[k].start_id,
                      capture.recordings[k].end_id)

\* ------------------------------------------------------- accumulators.py

\* The trigger scripts are not started in the runs of the other scripts.
TriggerIdle ==
    /\ args = [start |-> "none", end |-> "none", start_duration |-> 0,
               capture_duration |-> 0, count |-> 0, csv |-> FALSE,
               record |-> FALSE]
    /\ in0 = [i \in 1 .. MaxLen |-> 0]
    /\ analog = [i \in 1 .. MaxLen |-> FiniteSample]
    /\ sb_end = 0
    /\ capture = CaptureInit
    /\ pc = "idle"
    /\ quit = FALSE
    /\ streaming = FALSE
    /\ last_ret = FALSE
    /\ last_op = Op("init")
    /\ window_detect = WindowDetectInit

MaxDuration == 6
MaxCallbacks == 4

\* --update: any int.
UpdateIntervals == {0, 1, 2, 3}

\* _on_statistics with the update time set to the duration reported,
\* rather than advanced by one interval.
_on_statistics_now(acc, duration_now) ==
    LET n == acc.callbacks + 1
        update == duration_now >= acc.update_previous + acc.update_interval
    IN  [acc EXCEPT
            !.callbacks = n,
            !.duration_now = duration_now,
            !.prints = IF update
                       THEN Append(@, [callback |-> n, duration |-> duration_now])
                       ELSE @,
            !.update_previous = IF update THEN duration_now ELSE @]

\* Accumulators._on_statistics
_on_statistics(acc, duration_now) ==
    LET n == acc.callbacks + 1
        update == duration_now >= acc.update_previous + acc.update_interval
    IN  [acc EXCEPT
            !.callbacks = n,
            !.duration_now = duration_now,
            !.prints = IF update
                       THEN Append(@, [callback |-> n, duration |-> duration_now])
                       ELSE @,
            !.update_previous = IF update THEN @ + acc.update_interval ELSE @]

\* Accumulators.run as far as the loop: the interval is taken from --update
\* and the device streams.
InitAccumulators ==
    /\ TriggerIdle
    /\ logger = LoggerInit
    /\ shutoff = ShutoffInit
    /\ \E u \in UpdateIntervals :
          accumulators = [AccumulatorsInit EXCEPT !.update_interval = u,
                                                  !.pc = "loop"]

\* The device reports statistics: the duration never decreases.  The
\* callback is registered until the device is closed.
AccumulatorsStatistics ==
    /\ accumulators.pc = "loop"
    /\ accumulators.callbacks < MaxCallbacks
    /\ \E d \in accumulators.duration_now .. MaxDuration :
          accumulators' = _on_statistics(accumulators, d)
    /\ UNCHANGED <<trigger, logger, shutoff>>

\* _on_user_exit and _on_stop: SIGINT, or the capture duration completed.
AccumulatorsOnStop ==
    /\ accumulators.pc = "loop"
    /\ ~accumulators.quit
    /\ accumulators' = [accumulators EXCEPT !.quit = TRUE]
    /\ UNCHANGED <<trigger, logger, shutoff>>

\* The loop of _run_stream_buffer and _run_sensor sees _quit: the device is
\* closed and run prints the final statistics.
AccumulatorsLoopExit ==
    /\ accumulators.pc = "loop"
    /\ accumulators.quit
    /\ accumulators' = [accumulators EXCEPT !.pc = "done"]
    /\ UNCHANGED <<trigger, logger, shutoff>>

NextAccumulators ==
    \/ AccumulatorsStatistics
    \/ AccumulatorsOnStop
    \/ AccumulatorsLoopExit

SpecAccumulators == InitAccumulators /\ [][NextAccumulators]_vars

\* C30: _on_statistics prints at most one update per callback, the k-th
\* update is printed only by a callback whose duration is at least k times
\* the update interval, and _update_previous is always a whole multiple of
\* the interval (the number of updates printed times the interval).
C30_Updates ==
    LET p == accumulators.prints
    IN  /\ \A k \in 1 .. Len(p) :
              /\ p[k].callback \in 1 .. accumulators.callbacks
              /\ k > 1 => p[k - 1].callback < p[k].callback
              /\ p[k].duration >= k * accumulators.update_interval
        /\ accumulators.update_previous = Len(p) * accumulators.update_interval

\* Two updates were printed, the second one by a callback that reported more
\* than two intervals, with a callback in between that printed nothing.
C30_Witness ==
    LET p == accumulators.prints
    IN  /\ accumulators.update_interval > 0
        /\ Len(p) >= 2
        /\ p[2].duration > 2 * accumulators.update_interval
        /\ p[2].callback > p[1].callback + 1

\* ------------------------------------------------ low_voltage_shutoff.py

MaxUpdates == 3

\* --threshold and the mean voltages reported, in units of 0.5 V.
Thresholds == {5, 6}
Voltages == 4 .. 7

\* run() as far as the loop: scan_require_one(config='auto') sets the
\* current range to auto, which connects the target; the device is opened
\* by the with statement and started.
InitShutoff ==
    /\ TriggerIdle
    /\ logger = LoggerInit
    /\ accumulators = AccumulatorsInit
    /\ \E t \in Thresholds :
          shutoff = [ShutoffInit EXCEPT !.threshold = t, !.is_open = TRUE,
                                        !.streaming = TRUE, !.i_range = "auto",
                                        !.pc = "loop"]

\* on_statistics, called by the device while it streams.
ShutoffOnStatistics ==
    /\ shutoff.streaming
    /\ shutoff.updates < MaxUpdates
    /\ \E v \in Voltages :
          shutoff' = [shutoff EXCEPT
                         !.voltage = v,
                         !.updates = @ + 1,
                         !.low = @ \/ v < shutoff.threshold,
                         !.quit = @ \/ v < shutoff.threshold]
    /\ UNCHANGED <<trigger, logger, accumulators>>

\* on_stop: SIGINT, or the stop callback of the device.
ShutoffOnStop ==
    /\ shutoff.pc = "loop"
    /\ ~shutoff.stopped
    /\ shutoff' = [shutoff EXCEPT !.quit = TRUE, !.stopped = TRUE]
    /\ UNCHANGED <<trigger, logger, accumulators>>

\* while not _quit: the loop is left once _quit is set.
ShutoffLoopExit ==
    /\ shutoff.pc = "loop"
    /\ shutoff.quit
    /\ shutoff' = [shutoff EXCEPT !.pc = "stop"]
    /\ UNCHANGED <<trigger, logger, accumulators>>

\* device.stop(): streaming ends.  No parameter of the device is set.
ShutoffDeviceStop ==
    /\ shutoff.pc = "stop"
    /\ shutoff' = [shutoff EXCEPT !.streaming = FALSE, !.pc = "close"]
    /\ UNCHANGED <<trigger, logger, accumulators>>

\* The end of the with statement closes the device, and run returns 0.
\* No parameter of the device is set.
ShutoffDeviceClose ==
    /\ shutoff.pc = "close"
    /\ shutoff' = [shutoff EXCEPT !.is_open = FALSE, !.pc = "done"]
    /\ UNCHANGED <<trigger, logger, accumulators>>

NextShutoff ==
    \/ ShutoffOnStatistics
    \/ ShutoffOnStop
    \/ ShutoffLoopExit
    \/ ShutoffDeviceStop
    \/ ShutoffDeviceClose

SpecShutoff == InitShutoff /\ [][NextShutoff]_vars

\* The loop is only left after a low voltage or a stop, and a low voltage
\* always sets _quit; after the loop the device is stopped and closed.
ShutoffLeavesLoop ==
    /\ shutoff.low => shutoff.quit
    /\ shutoff.pc # "loop" => shutoff.low \/ shutoff.stopped
    /\ shutoff.pc \in {"close", "done"} => ~shutoff.streaming
    /\ shutoff.pc = "done" => ~shutoff.is_open

\* C24: once an update reports a mean voltage below the threshold the
\* script leaves its loop, stops the device and disconnects the target
\* output (so when run has returned after a low voltage the current range
\* is off); it leaves the loop for no other reason than a low voltage or a
\* stop.
C24_Shutoff ==
    /\ ShutoffLeavesLoop
    /\ shutoff.pc = "done" /\ shutoff.low => shutoff.i_range = "off"

\* ------------------------------------------- downsample_logging.py: text

\* The decimal digits, as characters.
DigitChars == <<"0", "1", "2", "3", "4", "5", "6", "7", "8", "9">>

DigitValue(c) == CHOOSE d \in 0 .. 9 : DigitChars[d + 1] = c

\* str(n) and f'{n}' of an int n >= 0: its decimal digits.
RECURSIVE str_int(_)
str_int(n) ==
    IF n < 10
    THEN <<DigitChars[n + 1]>>
    ELSE str_int(n \div 10) \o <<DigitChars[(n % 10) + 1]>>

\* int(text) of a text of decimal digits.
RECURSIVE int_text(_)
int_text(text) ==
    IF Len(text) = 1
    THEN DigitValue(text[1])
    ELSE int_text(SubSeq(text, 1, Len(text) - 1)) * 10
         + DigitValue(text[Len(text)])

\* f'{x}' of a float x >= 0 given in tenths: the shortest text that reads
\* back as x, which has one decimal.
str_float(x) == str_int(x \div 10) \o <<".">> \o str_int(x % 10)

\* float(text) of such a text, in tenths.
float_text(text) ==
    LET dot == CHOOSE k \in 1 .. Len(text) : text[k] = "."
    IN  int_text(SubSeq(text, 1, dot - 1)) * 10
        + int_text(SubSeq(text, dot + 1, Len(text)))

NoneText == <<"N", "o", "n", "e">>

\* f'{v}' of an int or None.
str_int_or_none(v) == IF v = None THEN NoneText ELSE str_int(v)

\* A line of the event file: '{time} {name} : {message}', the message of a
\* PARAM line being '{key}={value}'.
EventLine(name, key, value) == [name |-> name, key |-> key, value |-> value]

\* ----------------------------------------- downsample_logging.py: Logger

\* LAST_INITIALIZE
LAST_INITIALIZE == <<0, 0, 0, 0, 0, 0>>

\* np.finfo(np.float).max, in the unit of the currents (1e-5 A).
FLOAT_MAX == 1000000

\* The one Joulescope of the model, as str(device) gives it.
DeviceStr == "Joulescope:000001"

\* now_str(): the time in whole seconds as a text of fixed width (two
\* digits here); now is time.time() in tenths of a second.
now_str(now) ==
    LET sec == now \div 10
    IN  IF sec < 10 THEN <<"0">> \o str_int(sec) ELSE str_int(sec)

\* LoggerDevice.__init__ with _downsample_state_reset.  _last is <<>> for
\* None; _offset is [time, charge, energy].
LoggerDevice(device_str) ==
    [device_str         |-> device_str,
     is_open            |-> FALSE,
     f_csv              |-> FALSE,          \* self._f_csv is an open file
     last               |-> <<>>,
     offset             |-> <<0, 0, 0>>,
     downsample_counter |-> 0,
     mu                 |-> <<0, 0, 0>>,    \* _downsample_state['µ']
     min                |-> FLOAT_MAX,
     max                |-> 0 - FLOAT_MAX]

\* Logger.__init__(header, downsample, frequency, resume,
\* jls_sampling_frequency, source) in the world w: the files, the clock,
\* the instrument.
Logger(a, w) ==
    [header                 |-> a.header,
     downsample             |-> a.downsample,
     frequency              |-> a.frequency,
     resume                 |-> a.resume,
     jls_sampling_frequency |-> a.jls,
     source                 |-> a.source,
     start_time_s           |-> None,
     time_str               |-> <<>>,
     base_filename          |-> <<>>,     \* None
     f_event                |-> FALSE,    \* self._f_event is an open file
     quit                   |-> FALSE,
     faults                 |-> <<>>,
     devices                |-> <<>>,
     \* the run thread and the device thread
     pc                     |-> "open",
     event                  |-> <<>>,     \* the entry popped by run
     cbk                    |-> <<>>,     \* the append a callback still owes
     ret                    |-> None,     \* what run() returned
     \* what was appended to _faults and what run handled, in order
     appended               |-> <<>>,
     handled                |-> <<>>,
     closes                 |-> 0,        \* closes made for DEVICE_CLOSE
     \* the statistics this process received and the rows it wrote
     calls                  |-> <<>>,
     rows                   |-> <<>>,
     failed                 |-> "",       \* the exception run() caught
     logged                 |-> {},       \* the lines written after RUN
     base                   |-> <<0, 0>>, \* the charge and energy that were
                                          \* logged last when the device opened
     opens                  |-> 0,        \* the opens of the device
     restarts               |-> w.restarts,
     cbks                   |-> w.cbks,   \* the fault callbacks so far
     stats                  |-> w.stats,  \* the statistics callbacks so far
     \* the world
     files                  |-> w.files,  \* per session: name, txt, csv
     csv_buffer             |-> <<>>,     \* written to _f_csv, not flushed
     scan                   |-> w.scan,   \* joulescope.scan() finds it
     accum                  |-> w.accum,  \* its charge and energy so far
     now                    |-> w.now]

\* The files self._base_filename names, as an index of files (0: none).
FileIndex(lg) ==
    IF \E k \in 1 .. Len(lg.files) : lg.files[k].name = lg.base_filename
    THEN CHOOSE k \in 1 .. Len(lg.files) : lg.files[k].name = lg.base_filename
    ELSE 0

\* LoggerDevice.write(text): written to the csv file object, not flushed.
LoggerDevice_write(lg, line) ==
    IF lg.devices # <<>> /\ lg.devices[1].f_csv
    THEN [lg EXCEPT !.csv_buffer = Append(@, line)]
    ELSE lg

\* The event file holds 'LOGGER : RUN': _on_resume reads no line after it.
RunLogged(lg) ==
    \E k \in 1 .. Len(lg.files[FileIndex(lg)].txt) :
        /\ lg.files[FileIndex(lg)].txt[k].name = "LOGGER"
        /\ lg.files[FileIndex(lg)].txt[k].key = "RUN"

\* Logger.on_event(name, message): a line of the event file, flushed, and
\* with the header 'comment' a '#& ' line in the csv of every device.
\* Of the lines after 'LOGGER : RUN', which nothing reads back, the model
\* keeps which ones this process has written, not their order.
on_event(lg, name, key, value) ==
    IF lg.f_event
    THEN LET l == IF RunLogged(lg)
                  THEN [lg EXCEPT !.logged = @ \cup {<<name, key>>}]
                  ELSE [lg EXCEPT !.files[FileIndex(lg)].txt =
                           Append(@, EventLine(name, key, value))]
         IN  IF lg.header \in {"full", "comment"}
             THEN LoggerDevice_write(l, [kind |-> "comment"])
             ELSE l
    ELSE lg

\* Logger._devices_create(device_strs)
_devices_create(lg, device_strs) ==
    [lg EXCEPT !.devices =
        @ \o [k \in 1 .. Len(device_strs) |-> LoggerDevice(device_strs[k])]]

\* The lines open() writes before the scan: OPEN and the parameters.
Logger_open_params(lg) ==
    LET l1 == on_event(lg, "LOGGER", "OPEN", <<>>)
        l2 == on_event(l1, "PARAM", "start_time", str_float(lg.start_time_s))
        l3 == on_event(l2, "PARAM", "start_str", lg.time_str)
        l4 == on_event(l3, "PARAM", "downsample", str_int(lg.downsample))
        l5 == on_event(l4, "PARAM", "frequency", str_int(lg.frequency))
        l6 == on_event(l5, "PARAM", "jls_sampling_frequency",
                       str_int_or_none(lg.jls_sampling_frequency))
    IN  on_event(l6, "PARAM", "source", lg.source)

\* _find_files that takes the first name, not the last.
_find_files_first(lg) == 1

\* The name that sorted() puts last: texts of one width compare as the
\* numbers they spell.
_find_files_last(lg) ==
    CHOOSE k \in 1 .. Len(lg.files) :
        \A j \in 1 .. Len(lg.files) :
            int_text(lg.files[j].name) <= int_text(lg.files[k].name)

\* One line of the event file read by _on_resume.
_on_resume_line(lg, line) ==
    IF line.name = "PARAM"
    THEN IF line.key = "start_time"
         THEN [lg EXCEPT !.start_time_s = float_text(line.value)]
         ELSE IF line.key = "start_str"
         THEN [lg EXCEPT !.time_str = line.value]
         ELSE IF line.key = "downsample"
         THEN [lg EXCEPT !.downsample = int_text(line.value)]
         ELSE IF line.key = "frequency"
         THEN [lg EXCEPT !.frequency = int_text(line.value)]
         ELSE IF line.key = "jls_sampling_frequency"
         THEN [lg EXCEPT !.jls_sampling_frequency =
                   IF line.value = NoneText THEN None ELSE int_text(line.value)]
         ELSE IF line.key = "source"
         THEN [lg EXCEPT !.source = line.value]
         ELSE lg
    ELSE IF line.name = "DEVICES"
    THEN _devices_create(lg, <<line.key>>)
    ELSE lg

\* The loop of _on_resume over the lines, up to 'LOGGER : RUN'.
RECURSIVE _on_resume_lines(_, _)
_on_resume_lines(lg, lines) ==
    IF lines = <<>>
    THEN lg
    ELSE LET l == _on_resume_line(lg, Head(lines))
         IN  IF Head(lines).name = "LOGGER" /\ Head(lines).key = "RUN"
             THEN l
             ELSE _on_resume_lines(l, Tail(lines))

\* Logger._on_resume
_on_resume(lg) ==
    IF lg.files = <<>>
    THEN lg
    ELSE LET k == _find_files_last(lg)
             l == _on_resume_lines([lg EXCEPT !.base_filename = lg.files[k].name],
                                   lg.files[k].txt)
         IN  on_event([l EXCEPT !.f_event = TRUE], "LOGGER", "RESUME", <<>>)

\* What open() holds when it writes the event file of a new session.
Opened(lg, t) ==
    [start_time_s           |-> lg.now,
     time_str               |-> t,
     downsample             |-> lg.downsample,
     frequency              |-> lg.frequency,
     jls_sampling_frequency |-> lg.jls_sampling_frequency,
     source                 |-> lg.source,
     devices                |-> IF lg.scan THEN <<DeviceStr>> ELSE <<>>]

\* Logger.open().  The base name is 'jslog_{time}_{pid}': the model has one
\* process a second and names the files by the time.  A scan that finds
\* no Joulescope raises RuntimeError.
Logger_open(lg) ==
    IF lg.resume
    THEN [_on_resume(lg) EXCEPT !.pc = "run"]
    ELSE LET t == now_str(lg.now)
             l == Logger_open_params(
                     [lg EXCEPT
                        !.start_time_s = lg.now,
                        !.time_str = t,
                        !.base_filename = t,
                        !.files = Append(@, [name |-> t, txt |-> <<>>,
                                             csv |-> <<>>,
                                             has_csv |-> FALSE,
                                             opened |-> Opened(lg, t)]),
                        !.f_event = TRUE])
         IN  IF ~lg.scan
             THEN [l EXCEPT !.pc = "raised"]
             ELSE [_devices_create(on_event(l, "DEVICES", DeviceStr, <<>>),
                                   <<DeviceStr>>)
                     EXCEPT !.pc = "run"]

\* ----------------------------------- downsample_logging.py: the sessions

MaxSessions == 2
MaxRestarts == 2

\* The command lines: get_parser.  --frequency and --jls have more choices,
\* --downsample takes any int >= 1.
LoggerArgs ==
    [header : {"simple"}, downsample : {1, 12}, frequency : {2, 10},
     resume : BOOLEAN, jls : {None, 500}, source : {<<"stream_buffer">>,
                                                     <<"sensor">>}]

\* The world before the first session: no file, the clock at 1.0 s.
World ==
    [files |-> <<>>, scan |-> TRUE, accum |-> <<0, 0>>, now |-> 10,
     restarts |-> 0, cbks |-> 0, stats |-> 0]

\* The world a process leaves behind: what was flushed.
WorldOf(lg) ==
    [files |-> lg.files, scan |-> lg.scan, accum |-> lg.accum, now |-> lg.now,
     restarts |-> lg.restarts, cbks |-> lg.cbks, stats |-> lg.stats]

\* run() of the script as far as Logger.run: the Logger is constructed from
\* the command line and opened.
InitResume ==
    /\ TriggerIdle
    /\ shutoff = ShutoffInit
    /\ accumulators = AccumulatorsInit
    /\ \E a \in LoggerArgs :
          logger = Logger_open(Logger(a, World))

\* The process ends (it returns, is killed or the host resets) and the
\* script is started again some seconds later, with any command line.
ResumeRestart ==
    /\ logger.restarts < MaxRestarts
    /\ \E a \in LoggerArgs, dt \in {10, 20} :
          /\ ~a.resume => Len(logger.files) < MaxSessions
          /\ logger' = Logger_open(Logger(a,
                [WorldOf(logger) EXCEPT !.now = @ + dt,
                                        !.restarts = @ + 1]))
    /\ UNCHANGED <<trigger, shutoff, accumulators>>

NextResume == ResumeRestart

SpecResume == InitResume /\ [][NextResume]_vars

\* The session --resume has to restore: the one whose event file has the
\* name that sorts last.
LastSession ==
    CHOOSE k \in 1 .. Len(logger.files) :
        \A j \in 1 .. Len(logger.files) :
            j # k => int_text(logger.files[j].name)
                         < int_text(logger.files[k].name)

\* C28: a Logger opened with --resume holds start_time, start_str,
\* downsample, frequency, jls_sampling_frequency, source and the devices of
\* the session whose event file sorts last, as open() held them when it
\* wrote that file, whatever the constructor was given, and has appended
\* its RESUME line to that same file.
C28_Resume ==
    (logger.resume /\ logger.files # <<>>) =>
        LET f == logger.files[LastSession]
        IN  /\ logger.start_time_s = f.opened.start_time_s
            /\ logger.time_str = f.opened.time_str
            /\ logger.downsample = f.opened.downsample
            /\ logger.frequency = f.opened.frequency
            /\ logger.jls_sampling_frequency = f.opened.jls_sampling_frequency
            /\ logger.source = f.opened.source
            /\ [k \in 1 .. Len(logger.devices) |-> logger.devices[k].device_str]
                  = f.opened.devices
            /\ logger.base_filename = f.name
            /\ f.txt[Len(f.txt)] = EventLine("LOGGER", "RESUME", <<>>)
            /\ f.txt[1] = EventLine("LOGGER", "OPEN", <<>>)

\* Two sessions were opened with different parameters, and the second one
\* was resumed.
C28_Witness ==
    /\ logger.resume
    /\ Len(logger.files) = 2
    /\ LET f == logger.files[2]
       IN  /\ f.txt[Len(f.txt)].key = "RESUME"
           /\ f.opened.downsample = 12
           /\ f.opened.frequency = 10
           /\ f.opened.jls_sampling_frequency = 500
           /\ f.opened.source = <<"sensor">>
           /\ logger.files[1].opened.downsample = 1
           /\ logger.files[1].opened.source = <<"stream_buffer">>

\* ------------------------------------ downsample_logging.py: LoggerDevice

\* Numbers are in units of 1e-5 (A, V, W, C, J).  '%.4f' writes the number
\* rounded to four decimals, a multiple of 10 units.
Format_4f(x) == ((x + 5) \div 10) * 10

\* '%g' writes six significant digits.
Format_g(x) == IF x < 1000000 THEN x ELSE ((x + 5) \div 10) * 10

\* '%.7f,%g,%g,%g,%.4f,%g,%g,%g\n' % self._last; the time is in tenths of
\* a second, which '%.7f' writes exactly.
CsvLine(last) ==
    [kind |-> "row",
     cols |-> <<last[1], Format_g(last[2]), Format_g(last[3]),
                Format_g(last[4]), Format_4f(last[5]), Format_g(last[6]),
                Format_g(last[7]), Format_g(last[8])>>]

\* self._f_csv.flush(), and the flush that closing the file makes.
csv_flush(lg) ==
    [lg EXCEPT !.files[FileIndex(lg)].csv = @ \o lg.csv_buffer,
               !.csv_buffer = <<>>]

\* The lines LoggerDevice._resume reads, last line first, that do not start
\* with '#'.
RECURSIVE _resume_line(_)
_resume_line(lines) ==
    IF lines = <<>>
    THEN <<>>
    ELSE IF lines[Len(lines)].kind = "comment"
    THEN _resume_line(SubSeq(lines, 1, Len(lines) - 1))
    ELSE <<lines[Len(lines)]>>

\* _resume that takes the charge and energy columns of the row.
LoggerDevice_resume_columns(lg) ==
    LET f == lg.files[FileIndex(lg)]
        line == _resume_line(f.csv)
    IN  IF ~f.has_csv
        THEN lg
        ELSE IF line = <<>>
        THEN [lg EXCEPT !.devices[1].last = LAST_INITIALIZE]
        ELSE IF line[1].kind = "header"
        THEN [lg EXCEPT !.devices[1].last = LAST_INITIALIZE,
                        !.failed = "ValueError"]
        ELSE [lg EXCEPT !.devices[1].last = line[1].cols,
                        !.devices[1].offset =
                            <<0, line[1].cols[5], line[1].cols[6]>>]

\* LoggerDevice._resume: float() of every field of the last line that is
\* no comment, which raises ValueError on the line of column names;
\* _offset is set from the last two fields of the line.
LoggerDevice_resume(lg) ==
    LET f == lg.files[FileIndex(lg)]
        line == _resume_line(f.csv)
    IN  IF ~f.has_csv
        THEN lg
        ELSE IF line = <<>>
        THEN [lg EXCEPT !.devices[1].last = LAST_INITIALIZE]
        ELSE IF line[1].kind = "header"
        THEN [lg EXCEPT !.devices[1].last = LAST_INITIALIZE,
                        !.failed = "ValueError"]
        ELSE [lg EXCEPT !.devices[1].last = line[1].cols,
                        !.devices[1].offset =
                            <<0, line[1].cols[Len(line[1].cols) - 1],
                              line[1].cols[Len(line[1].cols)]>>]

\* The charge and energy of the last row of the csv file, 0 without one:
\* what the rows written from now on continue.
LastLogged(lg) ==
    LET f == lg.files[FileIndex(lg)]
        rows == {k \in 1 .. Len(f.csv) : f.csv[k].kind = "row"}
    IN  IF rows = {}
        THEN <<0, 0>>
        ELSE LET k == CHOOSE j \in rows : \A m \in rows : m <= j
             IN  <<f.csv[k].cols[5], f.csv[k].cols[6]>>

\* LoggerDevice.open(device): the instrument that is opened counts its
\* charge and energy from 0.  An exception of _resume leaves open().
LoggerDevice_open(lg) ==
    IF lg.devices[1].is_open
    THEN lg
    ELSE LET l1 == on_event(lg, "DEVICE", "OPEN", <<>>)
             l2 == LoggerDevice_resume(l1)
             l3 == on_event([l2 EXCEPT !.devices[1].f_csv = TRUE,
                                       !.files[FileIndex(lg)].has_csv = TRUE,
                                       !.accum = <<0, 0>>],
                            "DEVICE_INFO", "info", <<>>)
         IN  IF l2.failed # ""
             THEN l2
             ELSE [l3 EXCEPT !.devices[1].is_open = TRUE,
                             !.base = LastLogged(lg),
                             !.opens = @ + 1]

\* LoggerDevice.close(), lines 495-496: _last and is_open are reset while
\* the device and its thread still run.
LoggerDevice_close_begin(lg) ==
    [lg EXCEPT !.devices[1].last = <<>>,
               !.devices[1].is_open = FALSE]

\* LoggerDevice.close(), lines 497-502: the device is closed, which ends
\* its thread, and then the csv file, which writes what it buffers.
LoggerDevice_close_end(lg) ==
    LET l == IF lg.devices[1].f_csv THEN csv_flush(lg) ELSE lg
    IN  [l EXCEPT !.devices[1].f_csv = FALSE]

\* LoggerDevice.close() with no callback of the device during it.
LoggerDevice_close(lg) ==
    LoggerDevice_close_end(LoggerDevice_close_begin(lg))

\* The header on_statistics writes when _last is None.
LoggerDevice_header(lg) ==
    LET l1 == on_event(lg, "PARAM", "columns", <<>>)
        l2 == on_event(l1, "PARAM", "units", <<>>)
        l3 == IF lg.header = "simple"
              THEN LoggerDevice_write(l2, [kind |-> "header"])
              ELSE IF lg.header \in {"comment", "full"}
              THEN LoggerDevice_write(l2, [kind |-> "comment"])
              ELSE l2
    IN  csv_flush([l3 EXCEPT !.devices[1].last = LAST_INITIALIZE])

\* _downsample_state_reset that leaves the state as it is.
_downsample_state_keep(d) == d

\* LoggerDevice._downsample_state_reset
_downsample_state_reset(d) ==
    [d EXCEPT !.mu = <<0, 0, 0>>, !.min = FLOAT_MAX, !.max = 0 - FLOAT_MAX]

\* LoggerDevice.on_statistics(data): data holds the means i, v, p, the
\* extremes i_min, i_max and the accumulators of the instrument.
LoggerDevice_on_statistics(lg, data) ==
    LET l == IF lg.devices[1].last = <<>> THEN LoggerDevice_header(lg) ELSE lg
        d == l.devices[1]
        t == (l.now - l.start_time_s) + d.offset[1]
        c == data.charge + d.offset[2]
        e == data.energy + d.offset[3]
        mu == <<d.mu[1] + data.i, d.mu[2] + data.v, d.mu[3] + data.p>>
        min == IF data.i_min < d.min THEN data.i_min ELSE d.min
        max == IF data.i_max > d.max THEN data.i_max ELSE d.max
        counter == d.downsample_counter + 1
        last == <<t, mu[1] \div counter, mu[2] \div counter,
                  mu[3] \div counter, c, e, min, max>>
        call == [data |-> data, base |-> l.base]
    IN  IF counter >= l.downsample
        THEN csv_flush(
                 [LoggerDevice_write(l, CsvLine(last)) EXCEPT
                     !.devices[1] = _downsample_state_reset(
                         [d EXCEPT !.downsample_counter = 0, !.last = last,
                                   !.mu = mu, !.min = min, !.max = max]),
                     !.calls = Append(@, call),
                     !.rows = Append(@, CsvLine(last).cols)])
        ELSE [l EXCEPT !.devices[1].downsample_counter = counter,
                       !.devices[1].mu = mu,
                       !.devices[1].min = min,
                       !.devices[1].max = max,
                       !.calls = Append(@, call)]

\* ------------------------------------- downsample_logging.py: Logger.run

MaxStatistics == 4
MaxFaults == 2
MaxResumes == 1

\* The command lines of SpecLogger.
LoggerRunArgs ==
    [header : {"simple", "none"}, downsample : {1, 2}, frequency : {2},
     resume : {FALSE}, jls : {None}, source : {<<"stream_buffer">>}]

\* The statistics the instrument reports, twice a second: the mean
\* current, voltage and power and the extremes of the current.
StatisticsSet ==
    {[i |-> 12, v |-> 36, p |-> 48, i_min |-> 5, i_max |-> 17],
     [i |-> 24, v |-> 36, p |-> 96, i_min |-> 3, i_max |-> 40]}

InitLogger ==
    /\ TriggerIdle
    /\ shutoff = ShutoffInit
    /\ accumulators = AccumulatorsInit
    /\ \E a \in LoggerRunArgs :
          logger = Logger_open(Logger(a, World))

\* except Exception in run(): FAIL is logged and run returns 1.
Logger_fail(lg) ==
    [on_event(lg, "FAIL", lg.failed, <<>>) EXCEPT !.pc = "fail", !.ret = 1]

\* Logger._open_devices: every closed device that the scan finds is
\* opened.
_open_devices(lg) ==
    IF lg.devices # <<>> /\ ~lg.devices[1].is_open /\ lg.scan
    THEN LoggerDevice_open(lg)
    ELSE lg

\* run() up to its loop: RUN is logged and the devices are opened.
LoggerRun ==
    /\ logger.pc = "run"
    /\ LET l == _open_devices(on_event(logger, "LOGGER", "RUN", <<>>))
       IN  logger' = IF l.failed # "" THEN Logger_fail(l)
                     ELSE [l EXCEPT !.pc = "loop"]
    /\ UNCHANGED <<trigger, shutoff, accumulators>>

\* One pass of `while not self._quit` as far as the loop over the faults.
LoggerLoop ==
    /\ logger.pc = "loop"
    /\ ~logger.quit
    /\ LET l == _open_devices(logger)
       IN  logger' = IF l.failed # "" THEN Logger_fail(l)
                     ELSE [l EXCEPT !.pc = "faults"]
    /\ UNCHANGED <<trigger, shutoff, accumulators>>

\* event, message = self._faults.pop(0)
faults_pop(lg) ==
    [lg EXCEPT !.event = <<Head(lg.faults)>>, !.faults = Tail(@)]

\* `while len(self._faults)` finds an entry and pops it.
LoggerPop ==
    /\ logger.pc = "faults"
    /\ logger.faults # <<>>
    /\ logger' = [faults_pop(logger) EXCEPT !.pc = "handle"]
    /\ UNCHANGED <<trigger, shutoff, accumulators>>

\* The entry is logged; message.close() of a DEVICE_CLOSE entry begins.
LoggerHandle ==
    /\ logger.pc = "handle"
    /\ LET entry == logger.event[1]
           l == on_event(logger, "EVENT", entry.kind, <<>>)
       IN  logger' = IF entry.kind = "DEVICE_CLOSE"
                     THEN [LoggerDevice_close_begin(l) EXCEPT !.pc = "closing"]
                     ELSE [l EXCEPT !.handled = Append(@, entry),
                                    !.event = <<>>,
                                    !.pc = "faults"]
    /\ UNCHANGED <<trigger, shutoff, accumulators>>

\* message.close() of a DEVICE_CLOSE entry closes the device and the file.
LoggerHandleClose ==
    /\ logger.pc = "closing"
    /\ logger' = [LoggerDevice_close_end(logger) EXCEPT
                     !.closes = @ + 1,
                     !.handled = Append(@, logger.event[1]),
                     !.event = <<>>,
                     !.pc = "faults"]
    /\ UNCHANGED <<trigger, shutoff, accumulators>>

\* `while len(self._faults)` finds the list empty.
LoggerFaultsDone ==
    /\ logger.pc = "faults"
    /\ logger.faults = <<>>
    /\ logger' = [logger EXCEPT !.pc = "loop"]
    /\ UNCHANGED <<trigger, shutoff, accumulators>>

\* LoggerDevice.stop(): the message is made of self._last[4] and [5],
\* which raises TypeError when _last is None.
LoggerDevice_stop(lg) ==
    IF lg.devices[1].last = <<>>
    THEN [lg EXCEPT !.failed = "TypeError"]
    ELSE on_event(lg, "SUMMARY", lg.devices[1].device_str, <<>>)

\* The loop is left on _quit: every device is stopped and its summary
\* logged.
LoggerLoopExit ==
    /\ logger.pc = "loop"
    /\ logger.quit
    /\ LET l == IF logger.devices = <<>> THEN logger
                ELSE LoggerDevice_stop(logger)
       IN  logger' = IF l.failed # "" THEN Logger_fail(l)
                     ELSE [l EXCEPT !.pc = "done", !.ret = None]
    /\ UNCHANGED <<trigger, shutoff, accumulators>>

\* Logger.close(), from __exit__.
Logger_close(lg) ==
    LET l1 == on_event(lg, "LOGGER", "CLOSE", <<>>)
        l2 == IF l1.devices # <<>>
              THEN [LoggerDevice_close(l1) EXCEPT !.devices = <<>>]
              ELSE l1
    IN  [on_event(l2, "LOGGER", "DONE", <<>>) EXCEPT !.f_event = FALSE]

LoggerClose ==
    /\ logger.pc \in {"done", "fail"}
    /\ logger' = [Logger_close(logger) EXCEPT !.pc = "closed"]
    /\ UNCHANGED <<trigger, shutoff, accumulators>>

\* on_quit: SIGINT.
LoggerOnQuit ==
    /\ logger.pc \in {"loop", "faults", "handle", "closing"}
    /\ ~logger.quit
    /\ logger' = [on_event(logger, "SIGNAL", "SIGINT QUIT", <<>>)
                     EXCEPT !.quit = TRUE]
    /\ UNCHANGED <<trigger, shutoff, accumulators>>

\* The open device calls on_statistics, on its own thread; half a second
\* has passed and the accumulators of the instrument have advanced.
LoggerStatistics ==
    /\ logger.pc \in {"loop", "faults", "handle", "closing"}
    /\ logger.devices[1].is_open \/ logger.pc = "closing"
    /\ logger.cbk = <<>>
    /\ logger.stats < MaxStatistics
    /\ \E s \in StatisticsSet :
          LET accum == <<logger.accum[1] + s.i \div 2,
                         logger.accum[2] + s.p \div 2>>
              data == [i |-> s.i, v |-> s.v, p |-> s.p, i_min |-> s.i_min,
                       i_max |-> s.i_max, charge |-> accum[1],
                       energy |-> accum[2]]
          IN  logger' = LoggerDevice_on_statistics(
                            [logger EXCEPT !.accum = accum, !.now = @ + 5,
                                           !.stats = @ + 1],
                            data)
    /\ UNCHANGED <<trigger, shutoff, accumulators>>

\* The first append of a fault callback: (event, message).
faults_append(lg, entry) ==
    [lg EXCEPT !.faults = Append(@, entry), !.appended = Append(@, entry)]

\* The entries of the n-th fault callback.
FaultEntry(n) == [kind |-> "EVENT", n |-> n]
CloseEntry(n) == [kind |-> "DEVICE_CLOSE", n |-> n]

\* Logger.on_event_cbk, called by the open device on its own thread: the
\* first of its two appends.
LoggerOnEventCbk ==
    /\ logger.pc \in {"loop", "faults", "handle"}
    /\ logger.devices[1].is_open
    /\ logger.cbk = <<>>
    /\ logger.cbks < MaxFaults
    /\ LET n == logger.cbks + 1
       IN  logger' = [faults_append(logger, FaultEntry(n))
                        EXCEPT !.cbk = <<CloseEntry(n)>>, !.cbks = n]
    /\ UNCHANGED <<trigger, shutoff, accumulators>>

\* Logger.on_stop, called by the open device on its own thread: the stop
\* is logged and, with event > 0, the first of the two appends is made.
LoggerOnStop ==
    /\ logger.pc \in {"loop", "faults", "handle"}
    /\ logger.devices[1].is_open
    /\ logger.cbk = <<>>
    /\ logger.cbks < MaxFaults
    /\ \E event \in {0, 1} :
          LET n == logger.cbks + 1
              l == [on_event(logger, "SIGNAL", "STOP", <<>>)
                      EXCEPT !.cbks = n]
          IN  logger' = IF event > 0
                        THEN [faults_append(l, FaultEntry(n))
                                EXCEPT !.cbk = <<CloseEntry(n)>>]
                        ELSE l
    /\ UNCHANGED <<trigger, shutoff, accumulators>>

\* The second append of the callback: ('DEVICE_CLOSE', device).
LoggerAppendClose ==
    /\ logger.cbk # <<>>
    /\ logger' = [faults_append(logger, logger.cbk[1]) EXCEPT !.cbk = <<>>]
    /\ UNCHANGED <<trigger, shutoff, accumulators>>

\* The Joulescope is unplugged or plugged in again while it is closed.
LoggerScan ==
    /\ logger.pc \in {"loop", "faults", "handle"}
    /\ logger.devices # <<>>
    /\ ~logger.devices[1].is_open
    /\ logger' = [logger EXCEPT !.scan = ~@]
    /\ UNCHANGED <<trigger, shutoff, accumulators>>

\* The process ends at any point (it returns, is killed, the host resets:
\* what the csv file object buffered is lost) and the script is started
\* again with the same command line and --resume.
LoggerResume ==
    /\ logger.restarts < MaxResumes
    /\ logger.cbk = <<>>
    /\ LET a == [header |-> logger.header, downsample |-> logger.downsample,
                 frequency |-> logger.frequency, resume |-> TRUE,
                 jls |-> logger.jls_sampling_frequency,
                 source |-> logger.source]
       IN  logger' = Logger_open(Logger(a,
                         [WorldOf(logger) EXCEPT !.now = @ + 10,
                                                 !.scan = TRUE,
                                                 !.restarts = @ + 1]))
    /\ UNCHANGED <<trigger, shutoff, accumulators>>

NextLogger ==
    \/ LoggerRun \/ LoggerLoop \/ LoggerPop \/ LoggerHandle
    \/ LoggerHandleClose
    \/ LoggerFaultsDone \/ LoggerLoopExit \/ LoggerClose \/ LoggerOnQuit
    \/ LoggerStatistics \/ LoggerOnEventCbk \/ LoggerOnStop
    \/ LoggerAppendClose \/ LoggerScan \/ LoggerResume

SpecLogger == InitLogger /\ [][NextLogger]_vars

\* The run reaches every position without an unexpected value.
LoggerTypeOK ==
    /\ logger.pc \in {"run", "loop", "faults", "handle", "closing", "done",
                       "fail", "closed"}
    /\ Len(logger.faults) <= 2 * MaxFaults

\* ------------------------------------- downsample_logging.py: the claims

\* The sum of the mean f ("i", "v" or "p") over the callbacks a .. b of
\* this process.
RECURSIVE SumCalls(_, _, _)
SumCalls(a, b, f) ==
    IF a > b
    THEN 0
    ELSE (CASE f = "i" -> logger.calls[a].data.i
            [] f = "v" -> logger.calls[a].data.v
            [] f = "p" -> logger.calls[a].data.p)
         + SumCalls(a + 1, b, f)

Max(S) == CHOOSE x \in S : \A y \in S : y <= x

C21_Continuity ==
    \A k \in 1 .. Len(logger.rows) :
        LET call == logger.calls[k * logger.downsample]
        IN  /\ logger.rows[k][5] = Format_4f(call.base[1] + call.data.charge)
            /\ logger.rows[k][6] = Format_g(call.base[2] + call.data.energy)

\* C22: after a fault has closed the device, run keeps running and opens
\* the device again when a scan finds it, appending to the same csv file,
\* at every point of the session: opening it again never ends run by the
\* failure path, and no other file is made.
C22_FaultRecovery ==
    (logger.restarts = 0 /\ logger.closes > 0) =>
        /\ logger.failed # "ValueError"
        /\ Len(logger.files) = 1
        /\ logger.base_filename = logger.files[1].name

\* A pass of the loop that finds the closed device in the scan leaves it
\* open, unless run fails.
ReopensInLoop ==
    [][(logger.pc = "loop" /\ logger'.pc = "faults" /\ logger.scan)
          => logger'.devices[1].is_open]_vars

\* The number of DEVICE_CLOSE entries of a sequence of fault entries.
RECURSIVE CloseCount(_)
CloseCount(q) ==
    IF q = <<>> THEN 0
    ELSE (IF Head(q).kind = "DEVICE_CLOSE" THEN 1 ELSE 0)
         + CloseCount(Tail(q))

\* The hand-off of _faults between the threads: the entries handled, the
\* entry in hand and the entries queued are, in this order, the entries
\* the callbacks appended, and every DEVICE_CLOSE entry handled has closed
\* the device once.
FaultsHandOff ==
    /\ logger.handled \o logger.event \o logger.faults = logger.appended
    /\ logger.closes = CloseCount(logger.handled)

\* C27: every fault a device callback reports (Logger.on_event_cbk, or
\* Logger.on_stop with event > 0) is handled exactly once on the thread of
\* Logger.run, first in first out, and closes its device there: whatever
\* the interleaving of the appends with the loop over _faults, no entry is
\* handled twice or out of order, and none is left unhandled when run()
\* has returned.
C27_Faults ==
    /\ FaultsHandOff
    /\ logger.pc = "done" => logger.handled = logger.appended

\* run() has left its loop on _quit, by either way out.
EndedBySigint == logger.quit /\ logger.pc \in {"done", "fail"}

\* The SUMMARY line of every configured device is in the event file.
SummaryLogged ==
    \A i \in 1..Len(logger.devices) :
        <<"SUMMARY", logger.devices[i].device_str>> \in logger.logged

\* C32: when SIGINT ends Logger.run, a SUMMARY event is logged for every
\* configured device and run does not fail (no FAIL event, no return 1),
\* also when a device is closed after a fault or has not delivered a
\* statistics callback yet.
C32_Summary ==
    EndedBySigint =>
        /\ logger.pc = "done"
        /\ logger.ret = None
        /\ SummaryLogged

\* With a row or a resumed row in _last of every device, the same end of
\* run logs the summaries: stop() fails only on _last being None.
SummaryWithLast ==
    [][(/\ logger.pc = "loop"
        /\ logger.quit
        /\ logger'.pc \in {"done", "fail"}
        /\ \A i \in 1..Len(logger.devices) : logger.devices[i].last # <<>>)
       => (logger'.pc = "done" /\ logger'.ret = None /\ SummaryLogged')]_vars

\* _sample_id_last does not decrease (None, before the first call, is
\* below every id).
LastNeverDecreases ==
    [][capture'.sample_id_last >= capture.sample_id_last]_vars

\* No sample id is read by two calls: the range of a call begins at or
\* after the end of the range of every call before it.
SearchedOnce ==
    \A i, j \in 1 .. Len(capture.searched) :
        i < j => capture.searched[i][2] <= capture.searched[j][1]

\* The windows are disjoint and in order.
WindowsOrdered ==
    \A k \in 2 .. Len(capture.records) :
        capture.records[k].start_id >= capture.records[k - 1].end_id

\* C31: across the calls of Capture.__call__ on a growing stream buffer,
\* _sample_id_last never decreases, no sample id is searched for a trigger
\* in two different calls, and every record starts at or after the end of
\* the record before it.
C31_Monotone ==
    /\ LastNeverDecreases
    /\ [](SearchedOnce /\ WindowsOrdered)

\* Two calls have read samples, the second one with a window of the first
\* still open, and two windows have been emitted.
C31_Witness ==
    /\ Len(capture.searched) >= 2
    /\ Len(capture.records) >= 2
    /\ capture.records[2].start_id < capture.searched[2][1]
    /\ capture.records[2].end_id >= capture.searched[2][1]

\* The positions of the lines of one kind in a csv file.
LinesOf(csv, kind) == {k \in 1 .. Len(csv) : csv[k].kind = kind}

\* C33: the csv file of a device gets its header (the column line) at most
\* once and never after a data row, whatever the sequence of device open,
\* fault close, re-open and --resume.
C33_HeaderOnce ==
    \A f \in 1 .. Len(logger.files) :
        LET csv == logger.files[f].csv
        IN  /\ Cardinality(LinesOf(csv, "header")) <= 1
            /\ \A h \in LinesOf(csv, "header"), r \in LinesOf(csv, "row") :
                  h < r

\* As long as no statistics callback runs while close() is between its
\* line 495 and the end of device.close(), the header is written once and
\* first: a step that adds a header adds it to a file without header or
\* row, unless it is a callback inside close().
HeaderOnceOutsideClose ==
    [][\A f \in 1 .. Len(logger.files) :
          (/\ f <= Len(logger'.files)
           /\ logger.pc # "closing"
           /\ Cardinality(LinesOf(logger'.files[f].csv, "header"))
                 > Cardinality(LinesOf(logger.files[f].csv, "header")))
          => /\ LinesOf(logger.files[f].csv, "header") = {}
             /\ LinesOf(logger.files[f].csv, "row") = {}]_vars

====
